---- MODULE Spec2Model ----
(***************************************************************************)
(* Model of the RocketRetroRumble simulation core.                         *)
(*                                                                         *)
(* The store (client/src/lib/stores/useRocketGame.tsx) is a zustand store: *)
(* set(fn) calls fn with the store's current state and merges the partial  *)
(* state it returns into whatever the store holds when fn returns          *)
(* (Object.assign({}, state, partial)).  An updater that calls other       *)
(* store actions therefore sees their writes in the store, but its own     *)
(* `state` argument stays the snapshot taken when it was entered.          *)
(*                                                                         *)
(* JavaScript runs every handler to completion, so each handler is one     *)
(* action: the frame callback (components/game/Camera.tsx, Game.useFrame), *)
(* startGame, restartGame and the two setTimeout callbacks.                *)
(*                                                                         *)
(* Geometry (three.js boxes, distances, plane crossings) is the            *)
(* environment of this model: which collision meshes the vehicle box       *)
(* intersects in a frame, which power-up cubes detectCollisions reports,   *)
(* which checkpoint planes are crossed and whether the vehicle is near     *)
(* the track's end or far from its start are inputs of the frame action.   *)
(* Math.random() draws are inputs as well.                                 *)
(***************************************************************************)
EXTENDS Integers, Sequences, FiniteSets, TLC

VARIABLES
    phase,              \* GameState.phase
    time,               \* GameState.time (ms)
    score,              \* GameState.score
    lap,                \* GameState.lap
    lapTimes,           \* GameState.lapTimes
    bestLapTime,        \* GameState.bestLapTime (number | null)
    lastCheckpointId,   \* GameState.lastCheckpointId
    rocket,             \* GameState.rocket
    track,              \* GameState.track
    hazards,            \* GameState.hazards
    powerUps,           \* GameState.powerUps
    timers,             \* pending setTimeout callbacks, by callback
    ev                  \* history: the handler that ran last and what it did

vars == <<phase, time, score, lap, lapTimes, bestLapTime, lastCheckpointId,
          rocket, track, hazards, powerUps, timers, ev>>

----------------------------------------------------------------------------
(* constants.ts *)

READY == "ready"
PLAYING == "playing"
FINISHED == "finished"
GAME_OVER == "game_over"

BOOST_DURATION == 2000
COLLISION_DAMAGE == 10
CHECKPOINT_INTERVAL == 3

BOOST == "boost"
SHIELD == "shield"
POWERUP_TYPES == {BOOST, SHIELD}

(* literals of useRocketGame.tsx *)
SHIELD_DURATION == 5000
BOUNDARY_DAMAGE == 5
CHECKPOINT_SCORE == 100
LAP_BONUS == 500
INITIAL_HEALTH == 100
INITIAL_SEGMENTS == 6
MAX_DELTA == 100

\* Lengths and speeds are whole thousandths of a world unit; the vehicle
\* and the track lie on the z axis, measured in the direction (0, 0, -1).
ACCELERATION == 20       \* ROCKET.ACCELERATION = 0.02
MAX_SPEED == 2000        \* ROCKET.MAX_SPEED = 2.0
BOOST_MULTIPLIER == 2    \* ROCKET.BOOST_MULTIPLIER = 2.0
DRAG_PERCENT == 98       \* ROCKET.DRAG = 0.98
REBOUND_PERCENT == -50   \* velocity.multiplyScalar(-0.5)
SEGMENT_LENGTH == 100000 \* TRACK.SEGMENT_LENGTH = 100
BENT_LENGTH == 98877     \* the z extent of a segment turned by 0.15 rad
NEAR_REACH == 199990     \* distance < 2 * 100 at height 2: |dz| < 199.990
FAR_REACH == 299993      \* distance > 3 * 100 at height 2: |dz| > 299.993

null == -1          \* bestLapTime: null (lap times are never negative)

----------------------------------------------------------------------------
(* Bounds of the model *)

MaxSegId == 12      \* generateNewTrackSegment is not taken past this id
MaxHits == 2        \* collision meshes intersected in one frame
MaxTimers == 2      \* pending callbacks of one kind
MaxOverkill == 20   \* frames that would take health below -MaxOverkill are not taken
MaxRaceTime == 700  \* elapsed time of a lap in SpecRace (ms)
MaxLapSegId == 24   \* last segment id generated in SpecLaps
MaxLapTime == 1300  \* elapsed time of a lap in SpecLaps (ms)
MaxLapHits == 1     \* checkpoint gates touched in one frame in SpecLaps
MaxDamageTime == 600 \* elapsed time in SpecDamage (ms)
MaxBoostTime == 2300 \* elapsed time in SpecBoost (ms)
MaxBoostHits == 1   \* things touched in one frame in SpecBoost
MaxBoostDamage == 20 \* health lost in SpecBoost
MaxCollectTime == 300  \* elapsed time in SpecCollect (ms)
MaxCollectHits == 2 \* things touched in one frame in SpecCollect
MaxCollectDamage == 20 \* health lost in SpecCollect
MaxTrackSegId == 7  \* last segment id generated in SpecTrack
MaxTrackTime == 700 \* elapsed time in SpecTrack (ms)
MaxSpeedTime == 5200 \* elapsed time in SpecSpeed (ms)
MaxSpeedHits == 1   \* power-ups detectCollisions reports in one frame in SpecSpeed
MaxWindowSegId == 9 \* last segment id generated in SpecWindow
MaxWindowTime == 90000 \* elapsed time in SpecWindow (ms)
KeyHold == 10000    \* time for which the pilot keeps to a key in SpecWindow (ms)
MaxDetectHits == 3  \* things the vehicle meets in one call in SpecDetect
MaxCallTime == 200  \* elapsed time in SpecCalls (ms)
MaxCallSegId == 6   \* last segment id generated in SpecCalls
MaxCallId == 12     \* largest checkpoint id passed to checkpointPassed in SpecCalls
MaxRequestTime == 2300 \* elapsed time in SpecRequest (ms)
MaxRequestHits == 1 \* power-ups detectCollisions reports in one frame in SpecRequest
MaxCrashTime == 700 \* elapsed time in SpecCrash (ms)
MaxCrashHits == 2   \* things touched in one frame in SpecCrash
MaxLateral == 16    \* sideways reach of the positions in SpecGate (world units)
MaxAlong == 2       \* reach of the positions along the normal in SpecGate
MaxAside == 70      \* sideways reach of the positions in SpecBounds (fifths of a unit)
MaxCoastTime == 500 \* elapsed time in SpecCoast (ms)
MaxBonusSegId == 12 \* last segment id generated in SpecBonus
MaxBonusTime == 800 \* elapsed time of a lap in SpecBonus (ms)
MaxBonusHits == 2   \* things touched in one frame in SpecBonus
MaxSeasonTime == 2100 \* elapsed time of a lap in SpecSeason (ms)

----------------------------------------------------------------------------
(* The zustand store *)

Store == [phase |-> phase, time |-> time, score |-> score, lap |-> lap,
          lapTimes |-> lapTimes, bestLapTime |-> bestLapTime,
          lastCheckpointId |-> lastCheckpointId, rocket |-> rocket,
          track |-> track, hazards |-> hazards, powerUps |-> powerUps]

\* set(partial): Object.assign({}, state, partial)
Merge(state, partial) ==
    [k \in DOMAIN state |-> IF k \in DOMAIN partial THEN partial[k] ELSE state[k]]

\* `return {}` of an updater
Nothing == [k \in {} |-> k]

\* The race fields a checkpoint may touch
Race(state) == [score |-> state.score, lap |-> state.lap,
                lapTimes |-> state.lapTimes, bestLapTime |-> state.bestLapTime,
                lastCheckpointId |-> state.lastCheckpointId, time |-> state.time]

\* A world is the store together with the pending timers and the logs of the
\* handler that is running: cp the calls of checkpointPassed, pu the calls of
\* activatePowerUp, hit the hazard and boundary collisions resolved, req the
\* boost requests looked at, det the
\* calls of detectCollisions made on their own, from the phase in which a
\* store action was called on its own and arg the number it was given; key is
\* the key the pilot held in the last frame.
World ==
    [st |-> Store, timers |-> timers, cp |-> <<>>, pu |-> <<>>, hit |-> <<>>,
     req |-> <<>>, det |-> <<>>, from |-> "", arg |-> 0, key |-> ev.key]

InitialRocket ==
    [position |-> 0, velocity |-> 0, speed |-> 0,
     health |-> INITIAL_HEALTH, isShielded |-> FALSE, isBoosting |-> FALSE,
     boostCooldown |-> FALSE, boostTimeRemaining |-> 0, shieldTimeRemaining |-> 0]

\* setTimeout(cb, delay)
SetTimeout(tm, cb) == [tm EXCEPT ![cb] = @ + 1]

----------------------------------------------------------------------------
(* checkpointPassed *)

\* CheckpointUpdate with `<` for `<=` in the guard
CheckpointUpdate_Strict(state, checkpointId) ==
    IF checkpointId < state.lastCheckpointId THEN Nothing
    ELSE
      LET newScore == state.score + CHECKPOINT_SCORE IN
      IF checkpointId % (CHECKPOINT_INTERVAL * 4) = 0 /\ checkpointId > 0
      THEN [lap |-> state.lap + 1,
            lapTimes |-> Append(state.lapTimes, state.time),
            bestLapTime |-> IF state.bestLapTime = null \/ state.time < state.bestLapTime
                            THEN state.time ELSE state.bestLapTime,
            score |-> newScore + LAP_BONUS,
            lastCheckpointId |-> checkpointId,
            time |-> 0]
      ELSE [score |-> newScore, lastCheckpointId |-> checkpointId]

\* CheckpointUpdate with the best-lap comparison reversed
CheckpointUpdate_WorstLap(state, checkpointId) ==
    IF checkpointId <= state.lastCheckpointId THEN Nothing
    ELSE
      LET newScore == state.score + CHECKPOINT_SCORE IN
      IF checkpointId % (CHECKPOINT_INTERVAL * 4) = 0 /\ checkpointId > 0
      THEN LET lapTime == state.time
               newBestLapTime ==
                   IF state.bestLapTime = null \/ lapTime > state.bestLapTime
                   THEN lapTime ELSE state.bestLapTime
           IN [lap |-> state.lap + 1,
               lapTimes |-> Append(state.lapTimes, lapTime),
               bestLapTime |-> newBestLapTime,
               score |-> newScore + LAP_BONUS,
               lastCheckpointId |-> checkpointId,
               time |-> 0]
      ELSE [score |-> newScore, lastCheckpointId |-> checkpointId]

\* CheckpointUpdate with a lap every CHECKPOINT_INTERVAL segments
CheckpointUpdate_ShortLap(state, checkpointId) ==
    IF checkpointId <= state.lastCheckpointId THEN Nothing
    ELSE
      LET newScore == state.score + CHECKPOINT_SCORE IN
      IF checkpointId % CHECKPOINT_INTERVAL = 0 /\ checkpointId > 0
      THEN [lap |-> state.lap + 1,
            lapTimes |-> Append(state.lapTimes, state.time),
            bestLapTime |-> IF state.bestLapTime = null \/ state.time < state.bestLapTime
                            THEN state.time ELSE state.bestLapTime,
            score |-> newScore + LAP_BONUS,
            lastCheckpointId |-> checkpointId,
            time |-> 0]
      ELSE [score |-> newScore, lastCheckpointId |-> checkpointId]

\* CheckpointUpdate with the latest lap time taken for the best
CheckpointUpdate_LatestLap(state, checkpointId) ==
    IF checkpointId <= state.lastCheckpointId THEN Nothing
    ELSE
      LET newScore == state.score + CHECKPOINT_SCORE IN
      IF checkpointId % (CHECKPOINT_INTERVAL * 4) = 0 /\ checkpointId > 0
      THEN [lap |-> state.lap + 1,
            lapTimes |-> Append(state.lapTimes, state.time),
            bestLapTime |-> state.time,
            score |-> newScore + LAP_BONUS,
            lastCheckpointId |-> checkpointId,
            time |-> 0]
      ELSE [score |-> newScore, lastCheckpointId |-> checkpointId]

\* the updater passed to set()
CheckpointUpdate(state, checkpointId) ==
    IF checkpointId <= state.lastCheckpointId THEN Nothing
    ELSE
      LET newScore == state.score + CHECKPOINT_SCORE IN
      IF checkpointId % (CHECKPOINT_INTERVAL * 4) = 0 /\ checkpointId > 0
      THEN LET lapTime == state.time
               newBestLapTime ==
                   IF state.bestLapTime = null \/ lapTime < state.bestLapTime
                   THEN lapTime ELSE state.bestLapTime
           IN [lap |-> state.lap + 1,
               lapTimes |-> Append(state.lapTimes, lapTime),
               bestLapTime |-> newBestLapTime,
               score |-> newScore + LAP_BONUS,
               lastCheckpointId |-> checkpointId,
               time |-> 0]
      ELSE [score |-> newScore, lastCheckpointId |-> checkpointId]

\* get().checkpointPassed(id): the call is logged with the race fields around it
checkpointPassed(w, checkpointId) ==
    LET after == Merge(w.st, CheckpointUpdate(w.st, checkpointId)) IN
    [w EXCEPT !.st = after,
              !.cp = Append(@, [id |-> checkpointId,
                                before |-> Race(w.st), after |-> Race(after)])]

----------------------------------------------------------------------------
(* activatePowerUp *)

\* ActivateUpdate with power-ups that also repair the vehicle
ActivateUpdate_Repair(state, type) ==
    LET r == state.rocket IN
    [rocket |->
        IF type = BOOST
        THEN [r EXCEPT !.isBoosting = TRUE, !.boostTimeRemaining = BOOST_DURATION,
                       !.health = INITIAL_HEALTH]
        ELSE IF type = SHIELD
        THEN [r EXCEPT !.isShielded = TRUE, !.shieldTimeRemaining = SHIELD_DURATION,
                       !.health = INITIAL_HEALTH]
        ELSE r]

ActivateUpdate(state, type) ==
    LET r == state.rocket IN
    [rocket |->
        IF type = BOOST
        THEN [r EXCEPT !.isBoosting = TRUE, !.boostTimeRemaining = BOOST_DURATION]
        ELSE IF type = SHIELD
        THEN [r EXCEPT !.isShielded = TRUE, !.shieldTimeRemaining = SHIELD_DURATION]
        ELSE r]

activatePowerUp(w, type) ==
    [w EXCEPT !.st = Merge(w.st, ActivateUpdate(w.st, type))]

\* get().activatePowerUp(powerUp.type), logged with the power-up it is called
\* for and the caller: "mesh" is the loop of updateRocket, "detect" the frame
\* callback after detectCollisions
Collect(w, powerUp, path) ==
    [activatePowerUp(w, powerUp.type)
        EXCEPT !.pu = Append(@, [id |-> powerUp.id, type |-> powerUp.type,
                                 path |-> path])]

----------------------------------------------------------------------------
(* updateRocket: timers and boost request.  A step of the updater works on
   x = [r |-> the local copy `rocket`, tm |-> the pending timers]. *)

BoostTimer(x, deltaTime) ==
    IF x.r.isBoosting
    THEN LET left == x.r.boostTimeRemaining - deltaTime IN
         IF left <= 0
         THEN [r |-> [x.r EXCEPT !.boostTimeRemaining = left,
                                  !.isBoosting = FALSE,
                                  !.boostCooldown = TRUE],
               tm |-> SetTimeout(x.tm, "cooldown")]
         ELSE [x EXCEPT !.r.boostTimeRemaining = left]
    ELSE x

ShieldTimer(x, deltaTime) ==
    IF x.r.isShielded
    THEN LET left == x.r.shieldTimeRemaining - deltaTime IN
         IF left <= 0
         THEN [x EXCEPT !.r.shieldTimeRemaining = left, !.r.isShielded = FALSE]
         ELSE [x EXCEPT !.r.shieldTimeRemaining = left]
    ELSE x

\* BoostRequest without the test of isBoosting
BoostRequest_Refill(x, boost) ==
    IF boost /\ ~x.r.boostCooldown
    THEN [x EXCEPT !.r.isBoosting = TRUE, !.r.boostTimeRemaining = BOOST_DURATION]
    ELSE x

BoostRequest(x, boost) ==
    IF boost /\ ~x.r.boostCooldown /\ ~x.r.isBoosting
    THEN [x EXCEPT !.r.isBoosting = TRUE, !.r.boostTimeRemaining = BOOST_DURATION]
    ELSE x

Abs(v) == IF v < 0 THEN -v ELSE v

\* multiplyScalar(percent / 100), to the whole thousandth nearer zero
Scale(v, percent) ==
    LET n == v * percent IN IF n < 0 THEN -((-n) \div 100) ELSE n \div 100

\* Physics without the drag and the clamp
Physics_Unlimited(x, controls) ==
    LET acceleration == IF controls.forward THEN ACCELERATION
                        ELSE IF controls.backward THEN -ACCELERATION ELSE 0
        speedMultiplier == IF x.r.isBoosting THEN BOOST_MULTIPLIER ELSE 1
        velocity == x.r.velocity + acceleration * speedMultiplier
    IN [x EXCEPT !.r.velocity = velocity, !.r.position = @ + velocity,
                 !.r.speed = Abs(velocity)]

\* acceleration, drag, clamp, move and speed readout, with the heading
\* unchanged
Physics(x, controls) ==
    LET acceleration == IF controls.forward THEN ACCELERATION
                        ELSE IF controls.backward THEN -ACCELERATION ELSE 0
        speedMultiplier == IF x.r.isBoosting THEN BOOST_MULTIPLIER ELSE 1
        dragged == Scale(x.r.velocity + acceleration * speedMultiplier, DRAG_PERCENT)
        maxSpeed == MAX_SPEED * (IF x.r.isBoosting THEN BOOST_MULTIPLIER ELSE 1)
        velocity == IF Abs(dragged) > maxSpeed
                    THEN (IF dragged < 0 THEN -maxSpeed ELSE maxSpeed)
                    ELSE dragged
    IN [x EXCEPT !.r.velocity = velocity, !.r.position = @ + velocity,
                 !.r.speed = Abs(velocity)]

\* HazardHit with `< 0` for `<= 0` in the health check
HazardHit_Strict(x) ==
    IF ~x.r.isShielded
    THEN LET h == x.r.health - COLLISION_DAMAGE IN
         [r |-> [x.r EXCEPT !.health = h],
          tm |-> IF h < 0 THEN SetTimeout(x.tm, "endGame") ELSE x.tm]
    ELSE x

\* obj.userData.type === 'hazard'
HazardHit(x) ==
    IF ~x.r.isShielded
    THEN LET h == x.r.health - COLLISION_DAMAGE IN
         [r |-> [x.r EXCEPT !.health = h],
          tm |-> IF h <= 0 THEN SetTimeout(x.tm, "endGame") ELSE x.tm]
    ELSE x

\* BoundaryHit without the health check
BoundaryHit_NoEnd(x) ==
    IF ~x.r.isShielded
    THEN [x EXCEPT !.r.velocity = Scale(@, REBOUND_PERCENT),
                   !.r.health = @ - BOUNDARY_DAMAGE]
    ELSE x

\* obj.userData.type === 'track_boundary'
BoundaryHit(x) ==
    IF ~x.r.isShielded
    THEN LET h == x.r.health - BOUNDARY_DAMAGE IN
         [r |-> [x.r EXCEPT !.velocity = Scale(@, REBOUND_PERCENT), !.health = h],
          tm |-> IF h <= 0 THEN SetTimeout(x.tm, "endGame") ELSE x.tm]
    ELSE x

----------------------------------------------------------------------------
(* updateRocket: the loop over collisionObjects.
   objs is the sequence of collidable meshes whose box intersects the
   vehicle's box, in collisionObjects order; a mesh is
   [type |-> obj.userData.type, ref |-> index of userData.data / checkpointId].
   `state` is the updater's argument (the snapshot), w.st the store as the
   nested store actions have left it. *)

\* updatedPowerUps: userData.data and the first entry with its id go inactive
Deactivate(pus, idx) ==
    LET index == CHOOSE j \in DOMAIN pus :
                     /\ pus[j].id = pus[idx].id
                     /\ \A k \in DOMAIN pus : pus[k].id = pus[idx].id => j <= k
    IN [j \in DOMAIN pus |->
           IF j = idx \/ j = index THEN [pus[j] EXCEPT !.active = FALSE] ELSE pus[j]]

\* return { ...state, rocket, powerUps: updatedPowerUps }
PowerUpReturn(state, r, updatedPowerUps) ==
    Merge(state, [rocket |-> r, powerUps |-> updatedPowerUps])

\* a hazard or boundary collision resolved, logged with the local copy of
\* the vehicle before (x) and after (y) and the endGame timeouts it set
Resolved(w, kind, id, x, y) ==
    [w EXCEPT !.hit = Append(@, [kind |-> kind, id |-> id,
                                 shielded |-> x.r.isShielded,
                                 before |-> x.r.health, after |-> y.r.health,
                                 vbefore |-> x.r.velocity,
                                 vafter |-> y.r.velocity,
                                 ends |-> y.tm.endGame - x.tm.endGame])]

RECURSIVE CollisionLoop(_, _, _, _, _)
CollisionLoop(w, state, x, objs, i) ==
    IF i > Len(objs)
    THEN [w |-> [w EXCEPT !.timers = x.tm], partial |-> [rocket |-> x.r]]
    ELSE
      LET obj == objs[i] IN
      IF obj.type = "hazard"
      THEN CollisionLoop(Resolved(w, "hazard", state.hazards[obj.ref].id,
                                  x, HazardHit(x)),
                         state, HazardHit(x), objs, i + 1)
      ELSE IF obj.type = "powerup"
      THEN IF state.powerUps[obj.ref].active
           THEN [w |-> [Collect(w, state.powerUps[obj.ref], "mesh")
                            EXCEPT !.timers = x.tm],
                 partial |-> PowerUpReturn(state, x.r,
                                           Deactivate(state.powerUps, obj.ref))]
           ELSE CollisionLoop(w, state, x, objs, i + 1)
      ELSE IF obj.type = "checkpoint"
      THEN CollisionLoop(checkpointPassed(w, obj.ref), state, x, objs, i + 1)
      ELSE IF obj.type = "track_boundary"
      THEN CollisionLoop(Resolved(w, "track_boundary", obj.ref, x, BoundaryHit(x)),
                         state, BoundaryHit(x), objs, i + 1)
      ELSE CollisionLoop(w, state, x, objs, i + 1)

\* the boost fields of the local copy `rocket`
Boost(r) ==
    [isBoosting |-> r.isBoosting, boostCooldown |-> r.boostCooldown,
     boostTimeRemaining |-> r.boostTimeRemaining]

\* the boost request of a tick, logged with the boost fields at the start of
\* the tick (x0), after the timers (xt) and after the request (x1)
Requested(w, boost, x0, xt, x1) ==
    [w EXCEPT !.req = Append(@, [boost |-> boost, start |-> Boost(x0.r),
                                 before |-> Boost(xt.r), after |-> Boost(x1.r)])]

updateRocket(w, deltaTime, controls, collisionObjects) ==
    LET state == w.st
        x0 == [r |-> state.rocket, tm |-> w.timers]
        xt == ShieldTimer(BoostTimer(x0, deltaTime), deltaTime)
        x1 == BoostRequest(xt, controls.boost)
        x2 == Physics(x1, controls)
        out == CollisionLoop(Requested(w, controls.boost, x0, xt, x1), state, x2,
                             collisionObjects, 1)
    IN [out.w EXCEPT !.st = Merge(out.w.st, out.partial)]

----------------------------------------------------------------------------
(* Track generation.  A segment is [id, isCheckpoint, start, end], start and
   end being the z coordinates of its end points; a hazard is [id, active,
   seg] and a power-up [id, type, active, seg].  seg is not a field of the
   program's objects: it records the id of the segment the object was created
   with.  The Math.random() draws are the `draw` arguments. *)

\* draw.hazards: the segments i whose `Math.random() < 0.7` succeeds;
\* draw.powerUps: the segments i whose `Math.random() < 0.3` succeeds, mapped
\* to the type drawn; draw.bends: the segments i drawn with a curvature.
RECURSIVE InitializeLoop(_, _, _, _, _)
InitializeLoop(i, initialTrack, initialHazards, initialPowerUps, draw) ==
    IF i >= INITIAL_SEGMENTS
    THEN [track |-> initialTrack, hazards |-> initialHazards,
          powerUps |-> initialPowerUps]
    ELSE
      LET lastSegment == initialTrack[Len(initialTrack)]
          newEnd == lastSegment.end
                    + (IF i > 2 /\ i \in draw.bends THEN BENT_LENGTH ELSE SEGMENT_LENGTH)
          newSegment == [id |-> i, isCheckpoint |-> (i % CHECKPOINT_INTERVAL = 0),
                         start |-> lastSegment.end, end |-> newEnd]
          hz == IF i > 2 /\ i \in draw.hazards
                THEN Append(initialHazards,
                            [id |-> i * 100 + Len(initialHazards), active |-> TRUE,
                             seg |-> i])
                ELSE initialHazards
          pu == IF i > 1 /\ i \in DOMAIN draw.powerUps
                THEN Append(initialPowerUps,
                            [id |-> i * 100 + Len(initialPowerUps),
                             type |-> draw.powerUps[i], active |-> TRUE,
                             seg |-> i])
                ELSE initialPowerUps
      IN InitializeLoop(i + 1, Append(initialTrack, newSegment), hz, pu, draw)

startSegment ==
    [id |-> 0, isCheckpoint |-> TRUE, start |-> 0, end |-> SEGMENT_LENGTH]

InitializeUpdate(draw) ==
    InitializeLoop(1, <<startSegment>>, <<>>, <<>>, draw)

initializeTrack(w, draw) ==
    [w EXCEPT !.st = Merge(w.st, InitializeUpdate(draw))]

\* GenerateUpdate with the new segment started at the last segment's start
GenerateUpdate_Detached(state, draw) ==
    IF Len(state.track) = 0 THEN Nothing
    ELSE
      LET lastSegment == state.track[Len(state.track)]
          newEnd == lastSegment.end
                    + (IF draw.bend THEN BENT_LENGTH ELSE SEGMENT_LENGTH)
          newSegmentId == lastSegment.id + 1
          newSegment == [id |-> newSegmentId,
                         isCheckpoint |-> (newSegmentId % CHECKPOINT_INTERVAL = 0),
                         start |-> lastSegment.start, end |-> newEnd]
          newHazards ==
              IF draw.hazard # <<>>
              THEN Append(state.hazards,
                          [id |-> newSegmentId * 100 + draw.hazard[1], active |-> TRUE,
                           seg |-> newSegmentId])
              ELSE state.hazards
          newPowerUps ==
              IF draw.powerUp # <<>>
              THEN Append(state.powerUps,
                          [id |-> newSegmentId * 100 + draw.powerUp[1].n,
                           type |-> draw.powerUp[1].type, active |-> TRUE,
                           seg |-> newSegmentId])
              ELSE state.powerUps
      IN [track |-> Append(state.track, newSegment),
          hazards |-> newHazards, powerUps |-> newPowerUps]

\* GenerateUpdate with the track length as the new id
GenerateUpdate_CountId(state, draw) ==
    IF Len(state.track) = 0 THEN Nothing
    ELSE
      LET lastSegment == state.track[Len(state.track)]
          newEnd == lastSegment.end
                    + (IF draw.bend THEN BENT_LENGTH ELSE SEGMENT_LENGTH)
          newSegmentId == Len(state.track)
          newSegment == [id |-> newSegmentId,
                         isCheckpoint |-> (newSegmentId % CHECKPOINT_INTERVAL = 0),
                         start |-> lastSegment.end, end |-> newEnd]
          newHazards ==
              IF draw.hazard # <<>>
              THEN Append(state.hazards,
                          [id |-> newSegmentId * 100 + draw.hazard[1], active |-> TRUE,
                           seg |-> newSegmentId])
              ELSE state.hazards
          newPowerUps ==
              IF draw.powerUp # <<>>
              THEN Append(state.powerUps,
                          [id |-> newSegmentId * 100 + draw.powerUp[1].n,
                           type |-> draw.powerUp[1].type, active |-> TRUE,
                           seg |-> newSegmentId])
              ELSE state.powerUps
      IN [track |-> Append(state.track, newSegment),
          hazards |-> newHazards, powerUps |-> newPowerUps]

\* GenerateUpdate with the checkpoint flag taken from the last segment's id
GenerateUpdate_LastGate(state, draw) ==
    IF Len(state.track) = 0 THEN Nothing
    ELSE
      LET lastSegment == state.track[Len(state.track)]
          newEnd == lastSegment.end
                    + (IF draw.bend THEN BENT_LENGTH ELSE SEGMENT_LENGTH)
          newSegmentId == lastSegment.id + 1
          newSegment == [id |-> newSegmentId,
                         isCheckpoint |-> (lastSegment.id % CHECKPOINT_INTERVAL = 0),
                         start |-> lastSegment.end, end |-> newEnd]
          newHazards ==
              IF draw.hazard # <<>>
              THEN Append(state.hazards,
                          [id |-> newSegmentId * 100 + draw.hazard[1], active |-> TRUE,
                           seg |-> newSegmentId])
              ELSE state.hazards
          newPowerUps ==
              IF draw.powerUp # <<>>
              THEN Append(state.powerUps,
                          [id |-> newSegmentId * 100 + draw.powerUp[1].n,
                           type |-> draw.powerUp[1].type, active |-> TRUE,
                           seg |-> newSegmentId])
              ELSE state.powerUps
      IN [track |-> Append(state.track, newSegment),
          hazards |-> newHazards, powerUps |-> newPowerUps]

\* draw.hazard: <<>> or <<floor(random*1000)>>; draw.powerUp: <<>> or
\* <<[type, n]>> with n = floor(random*1000); draw.bend: whether the segment
\* is drawn with a curvature
GenerateUpdate(state, draw) ==
    IF Len(state.track) = 0 THEN Nothing
    ELSE
      LET lastSegment == state.track[Len(state.track)]
          newEnd == lastSegment.end
                    + (IF draw.bend THEN BENT_LENGTH ELSE SEGMENT_LENGTH)
          newSegmentId == lastSegment.id + 1
          newSegment == [id |-> newSegmentId,
                         isCheckpoint |-> (newSegmentId % CHECKPOINT_INTERVAL = 0),
                         start |-> lastSegment.end, end |-> newEnd]
          newHazards ==
              IF draw.hazard # <<>>
              THEN Append(state.hazards,
                          [id |-> newSegmentId * 100 + draw.hazard[1], active |-> TRUE,
                           seg |-> newSegmentId])
              ELSE state.hazards
          newPowerUps ==
              IF draw.powerUp # <<>>
              THEN Append(state.powerUps,
                          [id |-> newSegmentId * 100 + draw.powerUp[1].n,
                           type |-> draw.powerUp[1].type, active |-> TRUE,
                           seg |-> newSegmentId])
              ELSE state.powerUps
      IN [track |-> Append(state.track, newSegment),
          hazards |-> newHazards, powerUps |-> newPowerUps]

generateNewTrackSegment(w, draw) ==
    [w EXCEPT !.st = Merge(w.st, GenerateUpdate(w.st, draw))]

\* RemoveUpdate without the guard on the last segment
RemoveUpdate_Last(state) ==
    IF Len(state.track) = 0 THEN Nothing
    ELSE
      LET oldSegmentId == state.track[1].id
          NotOld(e) == (e.id \div 100) # oldSegmentId
      IN [track |-> Tail(state.track),
          hazards |-> SelectSeq(state.hazards, NotOld),
          powerUps |-> SelectSeq(state.powerUps, NotOld)]

RemoveUpdate(state) ==
    IF Len(state.track) <= 1 THEN Nothing
    ELSE
      LET oldSegmentId == state.track[1].id
          NotOld(e) == (e.id \div 100) # oldSegmentId
      IN [track |-> Tail(state.track),
          hazards |-> SelectSeq(state.hazards, NotOld),
          powerUps |-> SelectSeq(state.powerUps, NotOld)]

removeOldTrackSegment(w) ==
    [w EXCEPT !.st = Merge(w.st, RemoveUpdate(w.st))]

----------------------------------------------------------------------------
(* updateGameState.  nearEnd stands for
   currentPosition.distanceTo(lastSegment.end) < SEGMENT_LENGTH * 2 and
   farFromStart for currentPosition.distanceTo(firstSegment.start) >
   SEGMENT_LENGTH * 3. *)

\* currentPosition.distanceTo(lastSegment.end) < TRACK.SEGMENT_LENGTH * 2
NearEnd(position, lastSegment) ==
    Abs(position - lastSegment.end) < NEAR_REACH

\* currentPosition.distanceTo(firstSegment.start) > TRACK.SEGMENT_LENGTH * 3
FarFromStart(position, firstSegment) ==
    Abs(position - firstSegment.start) > FAR_REACH

updateTime(w, deltaTime) ==
    [w EXCEPT !.st = Merge(w.st, [time |-> w.st.time + deltaTime])]

\* updateGameState without the test of the phase
updateGameState_AnyPhase(w, deltaTime, nearEnd, farFromStart, draw) ==
    LET w1 == IF Len(w.st.track) > 0 /\ nearEnd
              THEN generateNewTrackSegment(w, draw) ELSE w
        w2 == IF Len(w1.st.track) > 0 /\ farFromStart
              THEN removeOldTrackSegment(w1) ELSE w1
    IN updateTime(w2, deltaTime)

updateGameState(w, deltaTime, nearEnd, farFromStart, draw) ==
    IF w.st.phase # PLAYING THEN w
    ELSE
      LET w1 == IF Len(w.st.track) > 0 /\ nearEnd
                THEN generateNewTrackSegment(w, draw) ELSE w
          w2 == IF Len(w1.st.track) > 0 /\ farFromStart
                THEN removeOldTrackSegment(w1) ELSE w1
      IN updateTime(w2, deltaTime)

----------------------------------------------------------------------------
(* detectCollisions (collisionDetection.ts).  hazHit is the set of indices
   of hazards whose cube intersects the vehicle's box, boxHit the same for
   power-ups, crossed the set of indices of segments whose end plane the
   vehicle crossed inside the track width.  result.trackBoundary, which only
   plays a sound, is left out. *)

\* detectCollisions without the test of hazard.active
detectCollisions_AnyHazard(trackSegments, hzs, pus, hazHit, boxHit, crossed) ==
    LET HazardHits[i \in 0..Len(hzs)] ==
            IF i = 0 THEN <<>>
            ELSE IF i \in hazHit
            THEN Append(HazardHits[i - 1], hzs[i]) ELSE HazardHits[i - 1]
        Hits[i \in 0..Len(pus)] ==
            IF i = 0 THEN <<>>
            ELSE IF pus[i].active /\ i \in boxHit
            THEN Append(Hits[i - 1], pus[i]) ELSE Hits[i - 1]
        Cp[i \in 0..Len(trackSegments)] ==
            IF i = 0 THEN [collided |-> FALSE, id |-> -1]
            ELSE IF trackSegments[i].isCheckpoint /\ i \in crossed
            THEN [collided |-> TRUE, id |-> trackSegments[i].id] ELSE Cp[i - 1]
    IN [hazards |-> HazardHits[Len(hzs)], powerUps |-> Hits[Len(pus)],
        checkpoint |-> Cp[Len(trackSegments)]]

detectCollisions(trackSegments, hzs, pus, hazHit, boxHit, crossed) ==
    LET HazardHits[i \in 0..Len(hzs)] ==
            IF i = 0 THEN <<>>
            ELSE IF hzs[i].active /\ i \in hazHit
            THEN Append(HazardHits[i - 1], hzs[i]) ELSE HazardHits[i - 1]
        Hits[i \in 0..Len(pus)] ==
            IF i = 0 THEN <<>>
            ELSE IF pus[i].active /\ i \in boxHit
            THEN Append(Hits[i - 1], pus[i]) ELSE Hits[i - 1]
        \* forEach overwrites result.checkpoint: the last crossing segment stays
        Cp[i \in 0..Len(trackSegments)] ==
            IF i = 0 THEN [collided |-> FALSE, id |-> -1]
            ELSE IF trackSegments[i].isCheckpoint /\ i \in crossed
            THEN [collided |-> TRUE, id |-> trackSegments[i].id] ELSE Cp[i - 1]
    IN [hazards |-> HazardHits[Len(hzs)], powerUps |-> Hits[Len(pus)],
        checkpoint |-> Cp[Len(trackSegments)]]

\* collisionResult.powerUps.forEach(powerUp => activatePowerUp(powerUp.type))
RECURSIVE ActivateAll(_, _)
ActivateAll(w, hit) ==
    IF hit = <<>> THEN w
    ELSE ActivateAll(Collect(w, Head(hit), "detect"), Tail(hit))

----------------------------------------------------------------------------
(* The frame callback of Game (Camera.tsx).  phase, track, hazards and
   powerUps are the values of the render that precedes the frame; the
   power-up objects are shared with the store, so the active flags
   detectCollisions reads are those updateRocket has left. *)

Clamp(deltaTime) == IF deltaTime < MAX_DELTA THEN deltaTime ELSE MAX_DELTA

GameLoop(w, deltaTime, controls, collisionObjects, nearEnd, farFromStart, draw, boxHit, crossed) ==
    LET clampedDelta == Clamp(deltaTime)
        w1 == updateRocket(w, clampedDelta, controls, collisionObjects)
        w2 == updateGameState(w1, clampedDelta, nearEnd, farFromStart, draw)
        \* collisionResult.hazards only plays a sound: no hazard is looked at
        collisionResult == detectCollisions(w.st.track, w.st.hazards, w1.st.powerUps,
                                            {}, boxHit, crossed)
        w3 == ActivateAll(w2, collisionResult.powerUps)
    IN IF collisionResult.checkpoint.collided
       THEN checkpointPassed(w3, collisionResult.checkpoint.id)
       ELSE w3

----------------------------------------------------------------------------
(* startGame, restartGame, endGame and the cooldown callback *)

\* ResetRace without the lap times
ResetRace_KeepLapTimes ==
    [time |-> 0, score |-> 0, lap |-> 1, rocket |-> InitialRocket]

ResetRace ==
    [time |-> 0, score |-> 0, lap |-> 1, lapTimes |-> <<>>, rocket |-> InitialRocket]

\* startGame without the test of the phase
startGame_AnyPhase(w, draw) ==
    LET w1 == initializeTrack(w, draw) IN
    [w1 EXCEPT !.st = Merge(w1.st, [phase |-> PLAYING] @@ ResetRace)]

startGame(w, draw) ==
    IF w.st.phase = READY
    THEN LET w1 == initializeTrack(w, draw) IN
         [w1 EXCEPT !.st = Merge(w1.st, [phase |-> PLAYING] @@ ResetRace)]
    ELSE w

restartGame(w, draw) ==
    LET w1 == initializeTrack(w, draw) IN
    [w1 EXCEPT !.st = Merge(w1.st, [phase |-> READY] @@ ResetRace)]

endGame(w, won) ==
    [w EXCEPT !.st = Merge(w.st, [phase |-> IF won THEN FINISHED ELSE GAME_OVER])]

\* the callback of setTimeout(..., ROCKET.BOOST_COOLDOWN)
cooldownOver(w) ==
    [w EXCEPT !.st = Merge(w.st, [rocket |-> [w.st.rocket EXCEPT !.boostCooldown = FALSE]])]

----------------------------------------------------------------------------
(* Actions.  An environment E gives the inputs a specification draws from:
   E.deltas the frame durations (ms), E.boost the values of controls.boost,
   E.drive the keys held (1 forward, -1 backward, 0 neither),
   E.kinds the kinds of collision mesh the vehicle may touch, E.detect the
   kinds of thing detectCollisions may report, E.near and E.far the outcomes of the
   two distance tests of updateGameState, E.initDraws and E.genDraws the
   random draws of track generation, E.hits the number of things touched in
   one frame, E.maxSeg the last segment id generated, E.maxTime the cap on
   elapsed time, E.minHealth the health below which no frame takes the
   vehicle, E.log the logs of a frame that the history variable ev keeps,
   E.measure whether the two distance tests are computed from the vehicle's
   position (otherwise they are the inputs E.near and E.far, and the
   position, which nothing else reads, is not kept), E.hold the time (ms)
   for which the pilot keeps to a key, 0 if keys change freely between
   frames. *)

Install(w, op) ==
    /\ phase' = w.st.phase
    /\ time' = w.st.time
    /\ score' = w.st.score
    /\ lap' = w.st.lap
    /\ lapTimes' = w.st.lapTimes
    /\ bestLapTime' = w.st.bestLapTime
    /\ lastCheckpointId' = w.st.lastCheckpointId
    /\ rocket' = w.st.rocket
    /\ track' = w.st.track
    /\ hazards' = w.st.hazards
    /\ powerUps' = w.st.powerUps
    /\ timers' = w.timers
    /\ ev' = [op |-> op, cp |-> w.cp, pu |-> w.pu, hit |-> w.hit, req |-> w.req,
              det |-> w.det,
              from |-> w.from, arg |-> w.arg, key |-> w.key]

Init ==
    /\ phase = READY
    /\ time = 0
    /\ score = 0
    /\ lap = 1
    /\ lapTimes = <<>>
    /\ bestLapTime = null
    /\ lastCheckpointId = 0
    /\ rocket = InitialRocket
    /\ track = <<>>
    /\ hazards = <<>>
    /\ powerUps = <<>>
    /\ timers = [endGame |-> 0, cooldown |-> 0]
    /\ ev = [op |-> "init", cp |-> <<>>, pu |-> <<>>, hit |-> <<>>, req |-> <<>>,
             det |-> <<>>,
             from |-> "", arg |-> 0, key |-> 0]

NoDraw == [hazard |-> <<>>, powerUp |-> <<>>, bend |-> FALSE]

\* the collidable meshes of the kinds the environment lets the vehicle touch
Meshes(kinds) ==
    {[type |-> "hazard", ref |-> i] :
        i \in IF "hazard" \in kinds THEN DOMAIN hazards ELSE {}}
    \cup {[type |-> "powerup", ref |-> i] :
        i \in IF "powerup" \in kinds THEN DOMAIN powerUps ELSE {}}
    \cup {[type |-> "checkpoint", ref |-> track[i].id] :
        i \in IF "checkpoint" \in kinds
              THEN {j \in DOMAIN track : track[j].isCheckpoint} ELSE {}}
    \cup (IF "track_boundary" \in kinds /\ track # <<>>
          THEN {[type |-> "track_boundary", ref |-> 0]} ELSE {})

\* for (const obj of collisionObjects): every mesh is met once, in array order
SeqsUpTo(S, n) ==
    {s \in UNION {[1..k -> S] : k \in 0..n} :
        \A i, j \in DOMAIN s : i # j => s[i] # s[j]}

\* the Start Game button is offered in the Ready phase only (GameUI)
StartGame(E) ==
    /\ phase = READY
    /\ \E draw \in E.initDraws :
       \E w \in {startGame(World, draw)} : Install(w, "startGame")

RestartGame(E) ==
    \E draw \in E.initDraws :
       \E w \in {restartGame(World, draw)} : Install(w, "restartGame")

\* setTimeout(() => get().endGame(false), 100)
EndGameTimer ==
    /\ timers.endGame > 0
    /\ \E w \in {endGame([World EXCEPT !.timers.endGame = @ - 1], FALSE)} :
          Install(w, "endGame")

CooldownTimer ==
    /\ timers.cooldown > 0
    /\ \E w \in {cooldownOver([World EXCEPT !.timers.cooldown = @ - 1])} :
          Install(w, "cooldown")

\* getKeys()
Keys(boost, drive) ==
    [boost |-> boost, forward |-> (drive = 1), backward |-> (drive = -1)]

SubsetsUpTo(S, n) == {T \in SUBSET S : Cardinality(T) <= n}

\* the logs of the frame, the position and the key held that the
\* specification observes
Observe(E, w, drive) ==
    [w EXCEPT !.st.rocket.position = IF E.measure THEN @ ELSE 0,
              !.key = IF E.hold > 0 THEN drive ELSE 0,
              !.cp = IF "cp" \in E.log THEN @ ELSE <<>>,
              !.pu = IF "pu" \in E.log THEN @ ELSE <<>>,
              !.hit = IF "hit" \in E.log THEN @ ELSE <<>>,
              !.req = IF "req" \in E.log THEN @ ELSE <<>>]

Frame(E) ==
    /\ phase = PLAYING
    /\ \E deltaTime \in E.deltas, boost \in E.boost, drive \in E.drive,
          collisionObjects \in SeqsUpTo(Meshes(E.kinds), E.hits),
          nearEnd \in (IF track # <<>> /\ track[Len(track)].id < E.maxSeg
                       THEN E.near ELSE {FALSE}),
          farFromStart \in E.far :
       /\ time + Clamp(deltaTime) <= E.maxTime
       /\ (E.hold > 0 /\ time % E.hold # 0) => drive = ev.key
       /\ \E draw \in (IF nearEnd THEN E.genDraws ELSE {NoDraw}),
             boxHit \in SubsetsUpTo(IF "powerup" \in E.detect
                                    THEN DOMAIN powerUps ELSE {},
                                    E.hits - Len(collisionObjects)),
             crossed \in SubsetsUpTo(IF "checkpoint" \in E.detect
                                     THEN {i \in DOMAIN track : track[i].isCheckpoint}
                                     ELSE {},
                                     E.hits - Len(collisionObjects)) :
            /\ Len(collisionObjects) + Cardinality(boxHit) + Cardinality(crossed)
                   <= E.hits
            /\ \E w \in {GameLoop(World, deltaTime, Keys(boost, drive),
                                  collisionObjects, nearEnd, farFromStart, draw,
                                  boxHit, crossed)} :
                 /\ w.timers.endGame <= MaxTimers
                 /\ w.timers.cooldown <= MaxTimers
                 /\ w.st.rocket.health >= E.minHealth
                 /\ (E.measure /\ track # <<>>) =>
                       /\ nearEnd = NearEnd(w.st.rocket.position, track[Len(track)])
                       /\ farFromStart = FarFromStart(w.st.rocket.position, track[1])
                 /\ Install(Observe(E, w, drive), "frame")

----------------------------------------------------------------------------
(* The race: checkpoints and laps.  The vehicle touches checkpoint gates and
   crosses checkpoint planes; the track streams; nothing is placed on it. *)

EmptyTrackDraw == [bends |-> {}, hazards |-> {}, powerUps |-> [i \in {} |-> BOOST]]

EnvRace ==
    [deltas |-> {100}, boost |-> {FALSE}, drive |-> {0}, kinds |-> {"checkpoint"},
     detect |-> {"powerup", "checkpoint"}, near |-> BOOLEAN, far |-> {FALSE},
     initDraws |-> {EmptyTrackDraw}, genDraws |-> {NoDraw},
     hits |-> MaxHits, maxSeg |-> MaxSegId, maxTime |-> MaxRaceTime,
     minHealth |-> -MaxOverkill,
     log |-> {"cp"}, measure |-> FALSE, hold |-> 0]

NextRace ==
    \/ StartGame(EnvRace)
    \/ RestartGame(EnvRace)
    \/ Frame(EnvRace)

SpecRace == Init /\ [][NextRace]_vars

----------------------------------------------------------------------------
(* Two laps of one race: the vehicle touches checkpoint gates while the track
   streams, a segment generated ahead and the oldest one removed in every
   frame. *)

EnvLaps ==
    [deltas |-> {100}, boost |-> {FALSE}, drive |-> {0}, kinds |-> {"checkpoint"},
     detect |-> {}, near |-> {TRUE}, far |-> {TRUE},
     initDraws |-> {EmptyTrackDraw}, genDraws |-> {NoDraw},
     hits |-> MaxLapHits, maxSeg |-> MaxLapSegId, maxTime |-> MaxLapTime,
     minHealth |-> -MaxOverkill,
     log |-> {"cp"}, measure |-> FALSE, hold |-> 0]

NextLaps ==
    \/ StartGame(EnvLaps)
    \/ Frame(EnvLaps)

SpecLaps == Init /\ [][NextLaps]_vars

----------------------------------------------------------------------------
(* Damage: the initial track carries hazards on segments 3 and 4 and a shield
   power-up on segment 2; the vehicle touches hazards, a track boundary and
   the power-up. *)

DamageTrackDraw == [bends |-> {}, hazards |-> {3, 4}, powerUps |-> [i \in {2} |-> SHIELD]]

EnvDamage ==
    [deltas |-> {100}, boost |-> {FALSE}, drive |-> {0},
     kinds |-> {"hazard", "track_boundary", "powerup"},
     detect |-> {"powerup", "checkpoint"}, near |-> {FALSE}, far |-> {FALSE},
     initDraws |-> {DamageTrackDraw}, genDraws |-> {NoDraw},
     hits |-> MaxHits, maxSeg |-> MaxSegId, maxTime |-> MaxDamageTime,
     minHealth |-> -MaxOverkill,
     log |-> {"cp"}, measure |-> FALSE, hold |-> 0]

NextDamage ==
    \/ StartGame(EnvDamage)
    \/ RestartGame(EnvDamage)
    \/ EndGameTimer
    \/ Frame(EnvDamage)

SpecDamage == Init /\ [][NextDamage]_vars

\* a scheduled timeout callback eventually runs
FairDamage == SpecDamage /\ WF_vars(EndGameTimer)

----------------------------------------------------------------------------
(* Boost: the initial track carries a boost power-up on segment 2 and a
   hazard on segment 3; the player requests boosts and the vehicle touches the
   power-up and, a few times, the hazard. *)

BoostTrackDraw == [bends |-> {}, hazards |-> {3}, powerUps |-> [i \in {2} |-> BOOST]]

EnvBoost ==
    [deltas |-> {100}, boost |-> BOOLEAN, drive |-> {0}, kinds |-> {"powerup", "hazard"},
     detect |-> {"powerup", "checkpoint"}, near |-> {FALSE}, far |-> {FALSE},
     initDraws |-> {BoostTrackDraw}, genDraws |-> {NoDraw},
     hits |-> MaxBoostHits, maxSeg |-> MaxSegId, maxTime |-> MaxBoostTime,
     minHealth |-> INITIAL_HEALTH - MaxBoostDamage,
     log |-> {"cp"}, measure |-> FALSE, hold |-> 0]

NextBoost ==
    \/ StartGame(EnvBoost)
    \/ RestartGame(EnvBoost)
    \/ CooldownTimer
    \/ Frame(EnvBoost)

SpecBoost == Init /\ [][NextBoost]_vars

----------------------------------------------------------------------------
(* Collecting: the initial track carries a shield power-up on segment 2, a
   hazard on segment 3 and a boost power-up on segment 4.  The vehicle touches
   their meshes and the boundary with the forward key held, and
   detectCollisions reports the power-ups its box overlaps.  The calls of
   activatePowerUp and the collisions resolved are observed. *)

CollectTrackDraw ==
    [bends |-> {}, hazards |-> {3},
     powerUps |-> [i \in {2, 4} |-> IF i = 2 THEN SHIELD ELSE BOOST]]

EnvCollect ==
    [deltas |-> {100}, boost |-> {FALSE}, drive |-> {1},
     kinds |-> {"powerup", "hazard", "track_boundary"},
     detect |-> {"powerup"}, near |-> {FALSE}, far |-> {FALSE},
     initDraws |-> {CollectTrackDraw}, genDraws |-> {NoDraw},
     hits |-> MaxCollectHits, maxSeg |-> MaxSegId, maxTime |-> MaxCollectTime,
     minHealth |-> INITIAL_HEALTH - MaxCollectDamage,
     log |-> {"pu", "hit"}, measure |-> FALSE, hold |-> 0]

NextCollect ==
    \/ StartGame(EnvCollect)
    \/ RestartGame(EnvCollect)
    \/ Frame(EnvCollect)

SpecCollect == Init /\ [][NextCollect]_vars

----------------------------------------------------------------------------
(* Streaming: the initial track carries hazards on segments 3 and 5 and a
   boost power-up on segment 2, and segment 4 is bent.  In every frame the
   two distance tests of updateGameState may go either way; a generated
   segment may be bent and may carry a hazard and a shield power-up, whose
   ids are drawn below and above 100.  The vehicle touches nothing. *)

StreamTrackDraw ==
    [bends |-> {4}, hazards |-> {3, 5}, powerUps |-> [i \in {2} |-> BOOST]]

StreamDraws ==
    {[hazard |-> h, powerUp |-> p, bend |-> b] :
        h \in {<<>>, <<7>>, <<150>>},
        p \in {<<>>, <<[type |-> SHIELD, n |-> 250]>>},
        b \in BOOLEAN}

EnvTrack ==
    [deltas |-> {100}, boost |-> {FALSE}, drive |-> {0}, kinds |-> {},
     detect |-> {}, near |-> BOOLEAN, far |-> BOOLEAN,
     initDraws |-> {StreamTrackDraw}, genDraws |-> StreamDraws,
     hits |-> 0, maxSeg |-> MaxTrackSegId, maxTime |-> MaxTrackTime,
     minHealth |-> INITIAL_HEALTH,
     log |-> {}, measure |-> FALSE, hold |-> 0]

NextTrack ==
    \/ StartGame(EnvTrack)
    \/ RestartGame(EnvTrack)
    \/ Frame(EnvTrack)

SpecTrack == Init /\ [][NextTrack]_vars

----------------------------------------------------------------------------
(* Speed: the vehicle flies with the forward key held; the boost key may be
   down in any frame, the cooldown callback runs at any time after the boost
   ran out, and detectCollisions may report the boost power-up of segment 2
   in any frame. *)

SpeedTrackDraw ==
    [bends |-> {}, hazards |-> {}, powerUps |-> [i \in {2} |-> BOOST]]

EnvSpeed ==
    [deltas |-> {100}, boost |-> BOOLEAN, drive |-> {1}, kinds |-> {},
     detect |-> {"powerup"}, near |-> {FALSE}, far |-> {FALSE},
     initDraws |-> {SpeedTrackDraw}, genDraws |-> {NoDraw},
     hits |-> MaxSpeedHits, maxSeg |-> MaxSegId, maxTime |-> MaxSpeedTime,
     minHealth |-> INITIAL_HEALTH,
     log |-> {}, measure |-> FALSE, hold |-> 0]

NextSpeed ==
    \/ StartGame(EnvSpeed)
    \/ CooldownTimer
    \/ Frame(EnvSpeed)

SpecSpeed == Init /\ [][NextSpeed]_vars

----------------------------------------------------------------------------
(* The window of live segments: a straight, empty track.  The pilot holds
   the forward key or the backward key and may change between them every
   KeyHold ms; the vehicle's position decides the two distance tests of
   updateGameState. *)

EnvWindow ==
    [deltas |-> {100}, boost |-> {FALSE}, drive |-> {1, -1}, kinds |-> {},
     detect |-> {}, near |-> BOOLEAN, far |-> BOOLEAN,
     initDraws |-> {EmptyTrackDraw}, genDraws |-> {NoDraw},
     hits |-> 0, maxSeg |-> MaxWindowSegId, maxTime |-> MaxWindowTime,
     minHealth |-> INITIAL_HEALTH,
     log |-> {}, measure |-> TRUE, hold |-> KeyHold]

NextWindow ==
    \/ StartGame(EnvWindow)
    \/ Frame(EnvWindow)

SpecWindow == Init /\ [][NextWindow]_vars

----------------------------------------------------------------------------
(* detectCollisions on its own: the function is applied to the track that
   initializeTrack lays, with hazards on segments 3 and 4 and power-ups on
   segments 2 and 4, every combination of their active flags, and the
   outcomes of the box tests and the plane crossings in which the vehicle
   meets up to MaxDetectHits things. *)

DetectTrackDraw ==
    [bends |-> {}, hazards |-> {3, 4},
     powerUps |-> [i \in {2, 4} |-> IF i = 2 THEN SHIELD ELSE BOOST]]

\* the entities of a collection, with any of them inactive
Flagged(entities) ==
    {[i \in DOMAIN entities |-> [entities[i] EXCEPT !.active = on[i]]] :
        on \in [DOMAIN entities -> BOOLEAN]}

InitDetect ==
    /\ phase = PLAYING
    /\ time = 0
    /\ score = 0
    /\ lap = 1
    /\ lapTimes = <<>>
    /\ bestLapTime = null
    /\ lastCheckpointId = 0
    /\ rocket = InitialRocket
    /\ track = InitializeUpdate(DetectTrackDraw).track
    /\ hazards \in Flagged(InitializeUpdate(DetectTrackDraw).hazards)
    /\ powerUps \in Flagged(InitializeUpdate(DetectTrackDraw).powerUps)
    /\ timers = [endGame |-> 0, cooldown |-> 0]
    /\ ev = [op |-> "init", cp |-> <<>>, pu |-> <<>>, hit |-> <<>>, req |-> <<>>,
             det |-> <<>>,
             from |-> "", arg |-> 0, key |-> 0]

\* detectCollisions(rocket.position, prevPosition, size, track, hazards, powerUps)
Detect ==
    \E hazHit \in SUBSET DOMAIN hazards, boxHit \in SUBSET DOMAIN powerUps,
       crossed \in SubsetsUpTo(DOMAIN track, MaxDetectHits) :
       /\ Cardinality(hazHit) + Cardinality(boxHit) + Cardinality(crossed)
              <= MaxDetectHits
       /\ Install([World EXCEPT !.det =
                   <<[hazHit |-> hazHit, boxHit |-> boxHit, crossed |-> crossed,
                      result |-> detectCollisions(track, hazards, powerUps,
                                                  hazHit, boxHit, crossed)]>>],
               "detect")

NextDetect == Detect

SpecDetect == InitDetect /\ [][NextDetect]_vars

----------------------------------------------------------------------------
(* The store's actions called one by one, in any phase: startGame,
   restartGame, endGame, checkpointPassed, activatePowerUp and
   updateGameState are functions of the store that any caller may invoke,
   whatever the phase.  The track is empty of hazards and power-ups. *)

EnvCalls ==
    [deltas |-> {50, 100}, boost |-> {FALSE}, drive |-> {0}, kinds |-> {},
     detect |-> {}, near |-> BOOLEAN, far |-> BOOLEAN,
     initDraws |-> {EmptyTrackDraw}, genDraws |-> {NoDraw},
     hits |-> 0, maxSeg |-> MaxCallSegId, maxTime |-> MaxCallTime,
     minHealth |-> INITIAL_HEALTH,
     log |-> {"cp"}, measure |-> FALSE, hold |-> 0]

\* the world of an action called on its own
Called == [World EXCEPT !.from = phase]

\* useRocketGame.getState().startGame()
StartCall(E) ==
    \E draw \in E.initDraws :
       \E w \in {startGame(Called, draw)} : Install(w, "startGame")

\* useRocketGame.getState().endGame(won)
EndCall ==
    \E won \in BOOLEAN :
       \E w \in {endGame(Called, won)} : Install(w, "endGame")

\* useRocketGame.getState().checkpointPassed(checkpointId)
CheckpointCall ==
    \E checkpointId \in {i \in 0..MaxCallId : i % CHECKPOINT_INTERVAL = 0} :
       \E w \in {checkpointPassed(Called, checkpointId)} :
          Install(w, "checkpointPassed")

\* useRocketGame.getState().activatePowerUp(type)
ActivateCall ==
    \E type \in POWERUP_TYPES :
       \E w \in {activatePowerUp(Called, type)} : Install(w, "activatePowerUp")

\* useRocketGame.getState().updateGameState(deltaTime)
UpdateCall(E) ==
    \E deltaTime \in E.deltas,
       nearEnd \in (IF track # <<>> /\ track[Len(track)].id < E.maxSeg
                    THEN E.near ELSE {FALSE}),
       farFromStart \in E.far :
       /\ time + deltaTime <= E.maxTime
       /\ \E draw \in (IF nearEnd THEN E.genDraws ELSE {NoDraw}) :
          \E w \in {updateGameState([Called EXCEPT !.arg = deltaTime], deltaTime,
                                     nearEnd, farFromStart, draw)} :
             Install(w, "updateGameState")

NextCalls ==
    \/ StartCall(EnvCalls)
    \/ RestartGame(EnvCalls)
    \/ EndCall
    \/ CheckpointCall
    \/ ActivateCall
    \/ UpdateCall(EnvCalls)

SpecCalls == Init /\ [][NextCalls]_vars

----------------------------------------------------------------------------
(* Boost requests: the boost key may be down in any frame, the cooldown
   callback runs at any time after a boost ran out, and detectCollisions may
   report the boost power-up of segment 2 in any frame.  The boost request
   of every tick is observed. *)

EnvRequest ==
    [deltas |-> {100}, boost |-> BOOLEAN, drive |-> {0}, kinds |-> {},
     detect |-> {"powerup"}, near |-> {FALSE}, far |-> {FALSE},
     initDraws |-> {SpeedTrackDraw}, genDraws |-> {NoDraw},
     hits |-> MaxRequestHits, maxSeg |-> MaxSegId, maxTime |-> MaxRequestTime,
     minHealth |-> INITIAL_HEALTH,
     log |-> {"req"}, measure |-> FALSE, hold |-> 0]

NextRequest ==
    \/ StartGame(EnvRequest)
    \/ CooldownTimer
    \/ Frame(EnvRequest)

SpecRequest == Init /\ [][NextRequest]_vars

----------------------------------------------------------------------------
(* Crashing: the initial track carries hazards on segments 3 and 4 and a
   shield power-up on segment 2.  The vehicle flies with the forward key
   held and touches the hazards and the track boundary until its health is
   used up; detectCollisions may report the power-up.  The collisions
   resolved are observed. *)

EnvCrash ==
    [deltas |-> {100}, boost |-> {FALSE}, drive |-> {1},
     kinds |-> {"hazard", "track_boundary"},
     detect |-> {"powerup"}, near |-> {FALSE}, far |-> {FALSE},
     initDraws |-> {DamageTrackDraw}, genDraws |-> {NoDraw},
     hits |-> MaxCrashHits, maxSeg |-> MaxSegId, maxTime |-> MaxCrashTime,
     minHealth |-> -MaxOverkill,
     log |-> {"hit"}, measure |-> FALSE, hold |-> 0]

NextCrash ==
    \/ StartGame(EnvCrash)
    \/ EndGameTimer
    \/ Frame(EnvCrash)

SpecCrash == Init /\ [][NextCrash]_vars

----------------------------------------------------------------------------
(* Geometry of collisionDetection.ts.  A vector is a record of whole
   fifths of a world unit; a direction is a vector of length NORM, standing
   for the unit vector direction / NORM that the track generator stores
   (newDirection.normalize()). *)

NORM == 5           \* length of a direction vector of the model
WIDTH == 150        \* TRACK.WIDTH = 30

Vec(x, y, z) == [x |-> x, y |-> y, z |-> z]
Dot(a, b) == a.x * b.x + a.y * b.y + a.z * b.z
Sub(a, b) == Vec(a.x - b.x, a.y - b.y, a.z - b.z)
Add(a, b) == Vec(a.x + b.x, a.y + b.y, a.z + b.z)
Times(a, k) == Vec(a.x * k, a.y * k, a.z * k)
LengthSq(a) == Dot(a, a)

\* plane.distanceToPoint(point) = normal.dot(point) + constant, times NORM
DistanceToPoint(segment, point) ==
    LET planeConstant == 0 - Dot(segment.direction, segment.end)
    IN Dot(segment.direction, point) + planeConstant

\* offset.projectOnPlane(planeNormal): offset minus its projection on the
\* normal, v.dot(offset) / v.lengthSq(); times NORM * NORM
ProjectOnPlane(offset, planeNormal) ==
    Sub(Times(offset, LengthSq(planeNormal)),
        Times(planeNormal, Dot(planeNormal, offset)))

\* checkCheckpointCollision without the test of the track width
checkCheckpointCollision_NoWidth(rocketPosition, rocketPrevPosition, segment) ==
    IF ~segment.isCheckpoint THEN FALSE
    ELSE (DistanceToPoint(segment, rocketPrevPosition) > 0)
           # (DistanceToPoint(segment, rocketPosition) > 0)

checkCheckpointCollision(rocketPosition, rocketPrevPosition, segment) ==
    IF ~segment.isCheckpoint THEN FALSE
    ELSE
      LET prevSide == DistanceToPoint(segment, rocketPrevPosition) > 0
          currentSide == DistanceToPoint(segment, rocketPosition) > 0
      IN IF prevSide # currentSide
         THEN LET offset == ProjectOnPlane(Sub(rocketPosition, segment.end),
                                           segment.direction)
              \* distanceFromCenter < segment.width / 2, both sides squared
              \* and multiplied by (2 * NORM * NORM)^2
              IN 4 * LengthSq(offset)
                   < segment.width * segment.width * NORM * NORM * NORM * NORM
         ELSE FALSE

----------------------------------------------------------------------------
(* checkCheckpointCollision on its own: the function is applied to a
   segment that ends at the origin of the grid, straight, turned or
   pitched, checkpoint or not, and to a previous and a current position
   within MaxAlong units of the segment's end plane on either side of it or
   on it, the current one up to MaxLateral units sideways of the segment's
   end, at the height of the track or at the vehicle's height above it. *)

\* a direction and a vector across it, both of length NORM
GateSegments ==
    {[id |-> 3, isCheckpoint |-> c, end |-> Vec(0, 0, 0), direction |-> d.along,
      across |-> d.across, width |-> WIDTH] :
        c \in BOOLEAN,
        d \in {[along |-> Vec(0, 0, -5), across |-> Vec(5, 0, 0)],
               [along |-> Vec(3, 0, -4), across |-> Vec(4, 0, 3)],
               [along |-> Vec(0, 3, -4), across |-> Vec(5, 0, 0)]}}

\* the point i units across and j units along from the segment's end, h
\* fifths above it
GatePoint(segment, i, j, h) ==
    Add(Add(Times(segment.across, i), Times(segment.direction, j)), Vec(0, h, 0))

GateInputs ==
    {[segment |-> s,
      rocketPosition |-> GatePoint(s, i, j, h),
      rocketPrevPosition |-> GatePoint(s, pi, pj, 10)] :
        s \in GateSegments, i \in (0 - MaxLateral)..MaxLateral,
        j \in (0 - MaxAlong)..MaxAlong, h \in {0, 10},
        pi \in {0, MaxLateral + 4}, pj \in (0 - MaxAlong)..MaxAlong}

InitGate ==
    /\ phase = PLAYING
    /\ time = 0
    /\ score = 0
    /\ lap = 1
    /\ lapTimes = <<>>
    /\ bestLapTime = null
    /\ lastCheckpointId = 0
    /\ rocket = InitialRocket
    /\ track = <<>>
    /\ hazards = <<>>
    /\ powerUps = <<>>
    /\ timers = [endGame |-> 0, cooldown |-> 0]
    /\ \E in \in GateInputs :
         ev = [op |-> "init", cp |-> <<>>, pu |-> <<>>, hit |-> <<>>, req |-> <<>>,
               det |-> <<in>>,
               from |-> "", arg |-> 0, key |-> 0]

\* checkCheckpointCollision(rocketPosition, rocketPrevPosition, segment)
Gate ==
    /\ ev.op = "init"
    /\ LET in == ev.det[1] IN
       Install([World EXCEPT !.det =
                <<[segment |-> in.segment, rocketPosition |-> in.rocketPosition,
                   rocketPrevPosition |-> in.rocketPrevPosition,
                   result |-> checkCheckpointCollision(in.rocketPosition,
                                  in.rocketPrevPosition, in.segment)]>>],
               "gate")

NextGate == Gate

SpecGate == InitGate /\ [][NextGate]_vars

----------------------------------------------------------------------------
(* checkTrackBoundaryCollision (collisionDetection.ts).  The segment's line
   runs from start to end = start + direction * (length / NORM); the
   fractions of three.js are kept exact by carrying their denominators. *)

ROCKET_SIZE == Vec(10, 10, 20)   \* new THREE.Vector3(2, 2, 4)
BUFFER == 1                      \* 0.2

Max(a, b) == IF a > b THEN a ELSE b
Min(a, b) == IF a < b THEN a ELSE b

\* the number k with end - start = direction * k
Steps(segment) ==
    CHOOSE k \in 1..SEGMENT_LENGTH :
        Times(segment.direction, k) = Sub(segment.end, segment.start)

\* line.closestPointToPoint(rocketPosition, clampToLine, closestPoint) and
\* rocketPosition.distanceTo(closestPoint), squared and times NORM^4:
\* t = startEnd.dot(startP) / startEnd.dot(startEnd), which is
\* direction.dot(startP) / (NORM * NORM * k), clamped to [0, 1] if asked, and
\* closestPoint = start + startEnd * t = start + direction * (t * k)
DistanceSqTo(segment, rocketPosition, clampToLine) ==
    LET startP == Sub(rocketPosition, segment.start)
        tn == Dot(segment.direction, startP)
        td == NORM * NORM * Steps(segment)
        clamped == IF clampToLine THEN Max(0, Min(td, tn)) ELSE tn
    IN LengthSq(Sub(Times(startP, NORM * NORM), Times(segment.direction, clamped)))

\* the forEach that keeps the first segment of least distance
RECURSIVE Closest(_, _, _, _)
Closest(trackSegments, rocketPosition, clampToLine, i) ==
    IF i = 0 THEN [closestSegment |-> 0, minDistanceSq |-> -1]
    ELSE
      LET before == Closest(trackSegments, rocketPosition, clampToLine, i - 1)
          distanceSq == DistanceSqTo(trackSegments[i], rocketPosition, clampToLine)
      IN IF before.closestSegment = 0 \/ distanceSq < before.minDistanceSq
         THEN [closestSegment |-> i, minDistanceSq |-> distanceSq]
         ELSE before

\* minDistance > closestSegment.width / 2 - rocketHalfWidth - 0.2, with
\* both sides doubled, and squared if the right side is not negative
Outside(found, trackSegments, rocketSize) ==
    LET twice == trackSegments[found.closestSegment].width
                 - Max(rocketSize.x, rocketSize.z) - 2 * BUFFER
    IN twice < 0
       \/ 4 * found.minDistanceSq > twice * twice * NORM * NORM * NORM * NORM

\* checkTrackBoundaryCollision with the distance to the segment's whole line
checkTrackBoundaryCollision_Unclamped(rocketPosition, rocketSize, trackSegments) ==
    LET found == Closest(trackSegments, rocketPosition, FALSE, Len(trackSegments))
    IN IF found.closestSegment = 0 THEN FALSE
       ELSE Outside(found, trackSegments, rocketSize)

checkTrackBoundaryCollision(rocketPosition, rocketSize, trackSegments) ==
    LET found == Closest(trackSegments, rocketPosition, TRUE, Len(trackSegments))
    IN IF found.closestSegment = 0 THEN FALSE
       ELSE Outside(found, trackSegments, rocketSize)

----------------------------------------------------------------------------
(* checkTrackBoundaryCollision on its own: the function is applied to no
   segments, to the start segment, and to the start segment followed by a
   turned one, and to positions beside, before and past them, up to
   MaxAside fifths of a unit to either side of the z axis, at track height
   and at the vehicle's height. *)

BoundsTracks ==
    LET first == [id |-> 0, start |-> Vec(0, 0, 0), end |-> Vec(0, 0, -500),
                  direction |-> Vec(0, 0, -5), width |-> WIDTH]
        second == [id |-> 1, start |-> Vec(0, 0, -500), end |-> Vec(300, 0, -900),
                   direction |-> Vec(3, 0, -4), width |-> WIDTH]
    IN {<<>>, <<first>>, <<first, second>>}

BoundsInputs ==
    {[trackSegments |-> t, rocketPosition |-> Vec(x, y, z)] :
        t \in BoundsTracks, x \in (0 - MaxAside)..MaxAside, y \in {0, 10},
        z \in {65, 60, 0, -250, -500, -520, -560}}

InitBounds ==
    /\ phase = PLAYING
    /\ time = 0
    /\ score = 0
    /\ lap = 1
    /\ lapTimes = <<>>
    /\ bestLapTime = null
    /\ lastCheckpointId = 0
    /\ rocket = InitialRocket
    /\ track = <<>>
    /\ hazards = <<>>
    /\ powerUps = <<>>
    /\ timers = [endGame |-> 0, cooldown |-> 0]
    /\ \E in \in BoundsInputs :
         ev = [op |-> "init", cp |-> <<>>, pu |-> <<>>, hit |-> <<>>, req |-> <<>>,
               det |-> <<in>>,
               from |-> "", arg |-> 0, key |-> 0]

\* checkTrackBoundaryCollision(rocketPosition, rocketSize, trackSegments)
Bounds ==
    /\ ev.op = "init"
    /\ LET in == ev.det[1] IN
       Install([World EXCEPT !.det =
                <<[trackSegments |-> in.trackSegments,
                   rocketPosition |-> in.rocketPosition,
                   result |-> checkTrackBoundaryCollision(in.rocketPosition,
                                  ROCKET_SIZE, in.trackSegments)]>>],
               "bounds")

NextBounds == Bounds

SpecBounds == InitBounds /\ [][NextBounds]_vars

----------------------------------------------------------------------------
(* The vehicle tick in space.  The velocity is a vector of whole
   thousandths; direction is the heading the rotation keys have left,
   new THREE.Vector3(0, 0, -1).applyEuler(rocket.rotation), as a vector of
   length NORM.  The position, which the tick does not read, is not kept. *)

\* the whole part of the square root of n, between lo and hi
RECURSIVE Root(_, _, _)
Root(n, lo, hi) ==
    IF lo >= hi THEN lo
    ELSE LET mid == (lo + hi + 1) \div 2
         IN IF mid * mid <= n THEN Root(n, mid, hi) ELSE Root(n, lo, mid - 1)

\* velocity.length()
Length(v) == Root(LengthSq(v), 0, 2 * BOOST_MULTIPLIER * MAX_SPEED)

\* FlightPhysics with the gravity of applyPhysics (physics.ts)
FlightPhysics_Gravity(x, controls, direction) ==
    LET acceleration == IF controls.forward THEN ACCELERATION
                        ELSE IF controls.backward THEN -ACCELERATION ELSE 0
        speedMultiplier == IF x.r.isBoosting THEN BOOST_MULTIPLIER ELSE 1
        pushed == Add(x.r.velocity,
                      Vec((direction.x * acceleration * speedMultiplier) \div NORM,
                          (direction.y * acceleration * speedMultiplier) \div NORM,
                          (direction.z * acceleration * speedMultiplier) \div NORM))
        velocity == Vec(Scale(pushed.x, DRAG_PERCENT), Scale(pushed.y, DRAG_PERCENT) - 5,
                        Scale(pushed.z, DRAG_PERCENT))
    IN [x EXCEPT !.r.velocity = velocity, !.r.speed = Length(velocity)]

\* velocity.addScaledVector(direction, acceleration * speedMultiplier),
\* multiplyScalar(DRAG), the clamp to maxSpeed and the speed readout
FlightPhysics(x, controls, direction) ==
    LET acceleration == IF controls.forward THEN ACCELERATION
                        ELSE IF controls.backward THEN -ACCELERATION ELSE 0
        speedMultiplier == IF x.r.isBoosting THEN BOOST_MULTIPLIER ELSE 1
        \* the components of direction / NORM times 20 or 40 are whole
        pushed == Add(x.r.velocity,
                      Vec((direction.x * acceleration * speedMultiplier) \div NORM,
                          (direction.y * acceleration * speedMultiplier) \div NORM,
                          (direction.z * acceleration * speedMultiplier) \div NORM))
        dragged == Vec(Scale(pushed.x, DRAG_PERCENT), Scale(pushed.y, DRAG_PERCENT),
                       Scale(pushed.z, DRAG_PERCENT))
        maxSpeed == MAX_SPEED * (IF x.r.isBoosting THEN BOOST_MULTIPLIER ELSE 1)
        velocity == IF LengthSq(dragged) > maxSpeed * maxSpeed
                    THEN Vec((dragged.x * maxSpeed) \div Length(dragged),
                             (dragged.y * maxSpeed) \div Length(dragged),
                             (dragged.z * maxSpeed) \div Length(dragged))
                    ELSE dragged
    IN [x EXCEPT !.r.velocity = velocity, !.r.speed = Length(velocity)]

\* updateRocket with the heading given and no collision objects
updateRocketHeaded(w, deltaTime, controls, direction) ==
    LET state == w.st
        x0 == [r |-> state.rocket, tm |-> w.timers]
        xt == ShieldTimer(BoostTimer(x0, deltaTime), deltaTime)
        x1 == BoostRequest(xt, controls.boost)
        x2 == FlightPhysics(x1, controls, direction)
        out == CollisionLoop(w, state, x2, <<>>, 1)
    IN [out.w EXCEPT !.st = Merge(out.w.st, out.partial)]

----------------------------------------------------------------------------
(* Coasting: a race on an empty track in which the pilot thrusts forward or
   backward or not at all, with or without boost, while the rotation keys
   leave the vehicle level, turned or pitched; nothing is touched. *)

Headings == {Vec(0, 0, -5), Vec(3, 0, -4), Vec(0, 3, -4)}

\* the speed at which the level vehicle settles with the forward key held:
\* the multiple of 49 next below ACCELERATION * 49 (49/50 is the drag)
CRUISE == 931

\* the state startGame leaves, the velocity as a vector, or the same race
\* later, the vehicle cruising level
InitCoast ==
    /\ phase = PLAYING
    /\ time = 0
    /\ score = 0
    /\ lap = 1
    /\ lapTimes = <<>>
    /\ bestLapTime = null
    /\ lastCheckpointId = 0
    /\ \E v \in {0, CRUISE} :
         rocket = [InitialRocket EXCEPT !.velocity = Vec(0, 0, 0 - v), !.speed = v]
    /\ track = InitializeUpdate(EmptyTrackDraw).track
    /\ hazards = <<>>
    /\ powerUps = <<>>
    /\ timers = [endGame |-> 0, cooldown |-> 0]
    /\ ev = [op |-> "init", cp |-> <<>>, pu |-> <<>>, hit |-> <<>>, req |-> <<>>,
             det |-> <<>>,
             from |-> "", arg |-> 0, key |-> 0]

\* the frame callback: updateRocket, updateGameState; detectCollisions
\* reports nothing
Fly ==
    /\ phase = PLAYING
    /\ \E deltaTime \in {100}, boost \in BOOLEAN, drive \in {1, 0, -1},
          direction \in Headings :
       /\ time + Clamp(deltaTime) <= MaxCoastTime
       /\ \E w \in {updateGameState(updateRocketHeaded(World, Clamp(deltaTime),
                                        Keys(boost, drive), direction),
                                    Clamp(deltaTime), FALSE, FALSE, NoDraw)} :
            /\ w.timers.cooldown <= MaxTimers
            /\ Install([w EXCEPT !.key = drive, !.arg = direction], "frame")

NextCoast == Fly

SpecCoast == InitCoast /\ [][NextCoast]_vars

----------------------------------------------------------------------------
(* Bonus: a race and the race after a restart, on a track that carries a
   shield power-up on segment 2 and grows by a segment in every frame while
   nothing is removed.  The vehicle touches checkpoint gates and the
   power-up, up to MaxBonusHits things in a frame, in any order. *)

BonusTrackDraw ==
    [bends |-> {}, hazards |-> {}, powerUps |-> [i \in {2} |-> SHIELD]]

EnvBonus ==
    [deltas |-> {100}, boost |-> {FALSE}, drive |-> {0},
     kinds |-> {"checkpoint", "powerup"},
     detect |-> {}, near |-> {TRUE}, far |-> {FALSE},
     initDraws |-> {BonusTrackDraw}, genDraws |-> {NoDraw},
     hits |-> MaxBonusHits, maxSeg |-> MaxBonusSegId, maxTime |-> MaxBonusTime,
     minHealth |-> INITIAL_HEALTH,
     log |-> {"cp", "pu"}, measure |-> FALSE, hold |-> 0]

NextBonus ==
    \/ StartGame(EnvBonus)
    \/ RestartGame(EnvBonus)
    \/ Frame(EnvBonus)

SpecBonus == Init /\ [][NextBonus]_vars

----------------------------------------------------------------------------
(* Seasons: the two laps above, with a restart at any time; the race after
   a restart runs on a new track whose segments are numbered from 0, so
   its first lap ends at segment 24 if the race before had one. *)

EnvSeason == [EnvLaps EXCEPT !.maxTime = MaxSeasonTime]

NextSeason ==
    \/ StartGame(EnvSeason)
    \/ RestartGame(EnvSeason)
    \/ Frame(EnvSeason)

SpecSeason == Init /\ [][NextSeason]_vars

----------------------------------------------------------------------------
(* Entity ids: streaming as above, the numbers floor(Math.random() * 1000)
   drawn for the id of a generated hazard or power-up being 50 or 150. *)

IdDraws ==
    {[hazard |-> h, powerUp |-> p, bend |-> FALSE] :
        h \in {<<>>, <<50>>, <<150>>},
        p \in {<<>>, <<[type |-> SHIELD, n |-> 50]>>, <<[type |-> SHIELD, n |-> 150]>>}}

EnvIds == [EnvTrack EXCEPT !.genDraws = IdDraws]

NextIds ==
    \/ StartGame(EnvIds)
    \/ RestartGame(EnvIds)
    \/ Frame(EnvIds)

SpecIds == Init /\ [][NextIds]_vars

----------------------------------------------------------------------------
(* Claims *)

CpCalls == {ev.cp[i] : i \in DOMAIN ev.cp}

\* C1: across every frame lastCheckpointId does not decrease, no call of
\* checkpointPassed lowers it, and a call with id <= lastCheckpointId leaves
\* score, lap, lapTimes, bestLapTime, time and lastCheckpointId as they were.
C1_CheckpointMonotone ==
    [][/\ ev'.op = "frame" => lastCheckpointId' >= lastCheckpointId
       /\ \A i \in DOMAIN ev'.cp :
             /\ ev'.cp[i].after.lastCheckpointId >= ev'.cp[i].before.lastCheckpointId
             /\ ev'.cp[i].id <= ev'.cp[i].before.lastCheckpointId
                  => ev'.cp[i].after = ev'.cp[i].before]_vars

\* an accepted checkpoint is reported a second time
C1_Witness ==
    \E c \in CpCalls :
       /\ c.before.lastCheckpointId > 0
       /\ c.id = c.before.lastCheckpointId
       /\ c.before.score > 0

\* C2: an accepted call whose id is a positive multiple of 12 adds one lap,
\* appends the elapsed time to lapTimes, makes bestLapTime the smaller of the
\* old best and that time, adds 100 + 500 to the score, sets lastCheckpointId
\* to the id and the time to 0.
C2_LapCompletion ==
    \A c \in CpCalls :
       (c.id > c.before.lastCheckpointId /\ c.id % 12 = 0 /\ c.id > 0) =>
          /\ c.after.lap = c.before.lap + 1
          /\ c.after.lapTimes = Append(c.before.lapTimes, c.before.time)
          /\ c.after.bestLapTime =
                IF c.before.bestLapTime = null \/ c.before.time < c.before.bestLapTime
                THEN c.before.time ELSE c.before.bestLapTime
          /\ c.after.score = c.before.score + 100 + 500
          /\ c.after.lastCheckpointId = c.id
          /\ c.after.time = 0

\* a second lap is completed slower than the first
C2_Witness ==
    \E c \in CpCalls :
       /\ c.id = 24
       /\ c.after.lap = 3
       /\ c.before.bestLapTime # null
       /\ c.before.time > c.before.bestLapTime
       /\ c.after.bestLapTime = c.before.bestLapTime

\* C3: an accepted call whose id is not a multiple of 12 adds 100 to the
\* score and sets lastCheckpointId to the id; lap, lapTimes, bestLapTime and
\* time stay.
C3_CheckpointOnly ==
    \A c \in CpCalls :
       (c.id > c.before.lastCheckpointId /\ c.id % 12 # 0) =>
          /\ c.after.score = c.before.score + 100
          /\ c.after.lastCheckpointId = c.id
          /\ c.after.lap = c.before.lap
          /\ c.after.lapTimes = c.before.lapTimes
          /\ c.after.bestLapTime = c.before.bestLapTime
          /\ c.after.time = c.before.time

\* checkpoint 3 is crossed with last-accepted id 0 after time has passed
C3_Witness ==
    \E c \in CpCalls :
       /\ c.id = 3
       /\ c.before.lastCheckpointId = 0
       /\ c.before.time > 0
       /\ c.after.score = c.before.score + 100

\* C4: restartGame puts every race field and the vehicle back at the initial
\* values, lastCheckpointId = 0 and bestLapTime absent included.
C4_RestartResetsAll ==
    [][ev'.op = "restartGame" =>
          /\ phase' = READY
          /\ time' = 0
          /\ score' = 0
          /\ lap' = 1
          /\ lapTimes' = <<>>
          /\ bestLapTime' = null
          /\ lastCheckpointId' = 0
          /\ rocket' = InitialRocket]_vars

\* C5: the phase changes to GameOver or Finished from Playing only.
C5_EndsFromPlaying ==
    [][(phase' \in {GAME_OVER, FINISHED} /\ phase' # phase) => phase = PLAYING]_vars

\* C6: a race whose vehicle has health <= 0 while Playing eventually is in
\* GameOver.
C6_DepletedLeadsToGameOver ==
    (phase = PLAYING /\ rocket.health <= 0) ~> (phase = GAME_OVER)

\* the callback has ended a race whose vehicle is depleted
C6_Witness ==
    /\ ev.op = "endGame"
    /\ phase = GAME_OVER
    /\ rocket.health <= 0

\* C7: once health is <= 0 no frame lowers it further.
C7_NoDamageAfterDepletion ==
    [][(rocket.health <= 0 /\ ev'.op = "frame") => rocket'.health >= rocket.health]_vars

\* C8: health lies in 0..100.
C8_HealthRange ==
    rocket.health \in 0..100

\* C9: health increases in no step other than startGame and restartGame.
C9_HealthNeverIncreases ==
    [][rocket'.health > rocket.health => ev'.op \in {"startGame", "restartGame"}]_vars

\* a damaged vehicle boosts from a power-up while the cooldown callback of an
\* earlier boost has run
C9_Witness ==
    /\ ev.op = "cooldown"
    /\ rocket.health < INITIAL_HEALTH
    /\ rocket.isBoosting
    /\ ~rocket.boostCooldown

\* C10: isBoosting and boostCooldown are never both true.
C10_BoostExcludesCooldown ==
    ~(rocket.isBoosting /\ rocket.boostCooldown)

\* the effect activatePowerUp(type) puts in force, read in the vehicle r
InForce(r, type) ==
    IF type = BOOST
    THEN r.isBoosting /\ r.boostTimeRemaining = BOOST_DURATION
    ELSE r.isShielded /\ r.shieldTimeRemaining = SHIELD_DURATION

\* C11: when the vehicle collides with an active power-up during a tick
\* (activatePowerUp is called for it, on either path), then after the tick
\* the power-up is inactive and its effect is in force: boost leaves
\* isBoosting with boostTimeRemaining = BOOST_DURATION, shield leaves
\* isShielded with shieldTimeRemaining = 5000.
C11_CollectedIsConsumedAndInForce ==
    [][ev'.op = "frame" =>
         \A k \in DOMAIN ev'.pu :
            /\ \A j \in DOMAIN powerUps' :
                  powerUps'[j].id = ev'.pu[k].id => ~powerUps'[j].active
            /\ InForce(rocket', ev'.pu[k].type)]_vars


\* C12: after a shield power-up is collected while unshielded, isShielded
\* is true with the full 5000 ms; and a hazard or boundary collision
\* processed while isShielded is true leaves health unchanged and, for the
\* boundary, the velocity not rebounded.
C12_ShieldCollectedProtects ==
    [][ev'.op = "frame" =>
         /\ \A k \in DOMAIN ev'.pu :
               (ev'.pu[k].type = SHIELD /\ ~rocket.isShielded) =>
                   /\ rocket'.isShielded
                   /\ rocket'.shieldTimeRemaining = SHIELD_DURATION
         /\ \A k \in DOMAIN ev'.hit :
               ev'.hit[k].shielded =>
                   /\ ev'.hit[k].after = ev'.hit[k].before
                   /\ ev'.hit[k].vafter = ev'.hit[k].vbefore]_vars


\* C13: a hazard's active flag becomes false when a collision with it is
\* resolved and never becomes true again, so one hazard damages the vehicle
\* at most once however many ticks the vehicle overlaps it.
C13_HazardSpentByCollision ==
    [][ev'.op = "frame" =>
         /\ \A k \in DOMAIN ev'.hit :
               (ev'.hit[k].kind = "hazard" /\ ev'.hit[k].after < ev'.hit[k].before) =>
                   \A j \in DOMAIN hazards' :
                      hazards'[j].id = ev'.hit[k].id => ~hazards'[j].active
         /\ \A j \in DOMAIN hazards :
               ~hazards[j].active =>
                   /\ j \in DOMAIN hazards' => ~hazards'[j].active
                   /\ \A k \in DOMAIN ev'.hit :
                         (ev'.hit[k].kind = "hazard" /\ ev'.hit[k].id = hazards[j].id)
                             => ev'.hit[k].after = ev'.hit[k].before]_vars


\* C14: each power-up applies its effect at most once over its lifetime:
\* once activatePowerUp has been called for it, it is inactive, and
\* activatePowerUp is not called for it again, neither later in the tick
\* nor in the next tick, whichever path detects the overlap.
C14_PowerUpEffectAtMostOnce ==
    [][ev'.op = "frame" =>
         \A k \in DOMAIN ev'.pu :
            /\ \A j \in DOMAIN powerUps' :
                  powerUps'[j].id = ev'.pu[k].id => ~powerUps'[j].active
            /\ \A i \in DOMAIN ev'.pu : i # k => ev'.pu[i].id # ev'.pu[k].id
            /\ ev.op = "frame" =>
                  \A i \in DOMAIN ev.pu : ev.pu[i].id # ev'.pu[k].id]_vars


\* the hazards and power-ups of a state, as a set
Entities(hz, pu) ==
    {hz[i] : i \in DOMAIN hz} \cup {pu[i] : i \in DOMAIN pu}

\* the ids of the segments of a track
SegmentIds(t) == {t[i].id : i \in DOMAIN t}

\* C15: when removeOldTrackSegment evicts the first segment s, every hazard
\* and power-up created together with s is removed in the same step, and no
\* hazard or power-up created with a segment that is still live is removed,
\* for the entities of initializeTrack and of generateNewTrackSegment alike.
C15_EvictionRemovesOwnEntities ==
    [][ev'.op = "frame" =>
         /\ \A e \in Entities(hazards', powerUps') : e.seg \in SegmentIds(track')
         /\ \A e \in Entities(hazards, powerUps) :
               e.seg \in SegmentIds(track') => e \in Entities(hazards', powerUps')]_vars


\* C16: after any sequence of initializeTrack, generateNewTrackSegment and
\* removeOldTrackSegment the live segments form a connected polyline: for
\* every adjacent pair, segment[i].end equals segment[i+1].start.
C16_SegmentsConnected ==
    \A i \in DOMAIN track :
       i < Len(track) => track[i].end = track[i + 1].start

\* a bent generated segment follows a straight generated one, after evictions
C16_Witness ==
    /\ Len(track) >= 3
    /\ track[1].id >= 2
    /\ track[Len(track)].id > INITIAL_SEGMENTS
    /\ track[Len(track)].end - track[Len(track)].start = BENT_LENGTH
    /\ track[Len(track) - 1].end - track[Len(track) - 1].start = SEGMENT_LENGTH
    /\ C16_SegmentsConnected


LastId(t) == t[Len(t)].id

\* C17: the ids of the live segments are contiguous, increasing by 1 from the
\* first live segment to the last; a newly generated segment has the id of
\* the previous last segment plus 1, and no id that was evicted comes back
\* within a race.
C17_SegmentIdsContiguous ==
    [][/\ \A i \in DOMAIN track' :
             i < Len(track') => track'[i + 1].id = track'[i].id + 1
       /\ ev'.op = "frame" =>
             /\ LastId(track') \in {LastId(track), LastId(track) + 1}
             /\ track'[1].id >= track[1].id
             /\ \A i \in DOMAIN track' :
                   track'[i].id \notin SegmentIds(track) =>
                       track'[i].id = LastId(track) + 1]_vars

\* a segment is generated onto a window whose first segments were evicted
C17_Witness ==
    /\ ev.op = "frame"
    /\ track[1].id >= 3
    /\ LastId(track) = MaxTrackSegId
    /\ Len(track) = MaxTrackSegId - track[1].id + 1


\* C18: for every live segment in every reachable state, isCheckpoint is
\* true if and only if its id is a multiple of CHECKPOINT_INTERVAL (3).
C18_CheckpointEveryThird ==
    \A i \in DOMAIN track :
       track[i].isCheckpoint <=> (track[i].id % CHECKPOINT_INTERVAL = 0)

\* the generated segments 6 and 7 are live, the first of them a checkpoint
C18_Witness ==
    /\ Len(track) >= 3
    /\ LastId(track) = INITIAL_SEGMENTS + 1
    /\ ~track[Len(track) - 2].isCheckpoint
    /\ track[Len(track) - 1].isCheckpoint
    /\ ~track[Len(track)].isCheckpoint


\* C20: after every updateRocket tick, for every sequence of control inputs
\* and power-up activations, the velocity magnitude is at most MAX_SPEED *
\* (BOOST_MULTIPLIER if isBoosting else 1); in particular after the tick in
\* which a boost expires it is at most the un-boosted maximum.
C20_SpeedWithinClamp ==
    Abs(rocket.velocity) <=
        MAX_SPEED * (IF rocket.isBoosting THEN BOOST_MULTIPLIER ELSE 1)

\* the tick in which a boost expires, at more than half the un-boosted
\* maximum (a speed that only boosting gives)
C20_Witness ==
    /\ ev.op = "frame"
    /\ ~rocket.isBoosting
    /\ rocket.boostCooldown
    /\ rocket.boostTimeRemaining = 0
    /\ 2 * rocket.velocity > MAX_SPEED
    /\ C20_SpeedWithinClamp


\* TRACK.MAX_SEGMENTS
MAX_SEGMENTS == 12

C21_SpeedIsVelocityLength ==
    ev.op = "frame" => rocket.speed = Abs(rocket.velocity)


\* the checkpoint segments among the segments whose plane was crossed
CrossedGates(d) == {i \in d.crossed : track[i].isCheckpoint}

ReportedInOrder(result, entities, hit) ==
    LET want == {i \in DOMAIN entities : entities[i].active /\ i \in hit} IN
    /\ Len(result) = Cardinality(want)
    /\ \E f \in [DOMAIN result -> want] :
          /\ \A a, b \in DOMAIN result : a < b => f[a] < f[b]
          /\ \A a \in DOMAIN result : result[a] = entities[f[a]]

\* C30: detectCollisions returns exactly the active hazards and the active
\* power-ups whose box the vehicle's box intersects, all of them, in the order
\* of the collections it was given; an inactive one is never returned.
C30_ActiveHitsInOrder ==
    \A k \in DOMAIN ev.det :
        LET d == ev.det[k] IN
        /\ ReportedInOrder(d.result.hazards, hazards, d.hazHit)
        /\ ReportedInOrder(d.result.powerUps, powerUps, d.boxHit)
        /\ \A a \in DOMAIN d.result.hazards : d.result.hazards[a].active
        /\ \A a \in DOMAIN d.result.powerUps : d.result.powerUps[a].active

\* a call in which the vehicle's box intersects two active hazards, both
\* returned, and an inactive power-up, not returned
C30_Witness ==
    \E k \in DOMAIN ev.det :
        LET d == ev.det[k] IN
        /\ Len(d.result.hazards) = 2
        /\ \E i \in d.boxHit : ~powerUps[i].active
        /\ d.result.powerUps = <<>>


\* the commands of the simulation: start, restart and tick
Commands == {"startGame", "restartGame", "frame"}

\* C23: the state changes only by commands: boostCooldown, isShielded and
\* phase change in no step other than a start, a restart or a tick, so that
\* the state is a function of the command sequence and its random draws.
C23_ChangesOnlyByCommands ==
    [][(\/ rocket'.boostCooldown # rocket.boostCooldown
        \/ rocket'.isShielded # rocket.isShielded
        \/ phase' # phase) => ev'.op \in Commands]_vars


\* C24: a call of checkpointPassed while the phase is not Playing leaves
\* score, lap, lapTimes, bestLapTime, time and lastCheckpointId as they were,
\* whatever the id.
C24_CheckpointOutsideRaceIsNoOp ==
    [][(ev'.op = "checkpointPassed" /\ phase # PLAYING) =>
          /\ phase' = phase
          /\ Race(Store)' = Race(Store)]_vars


\* C25: startGame called in the Ready phase leaves the phase Playing, the
\* track freshly laid (6 segments with ids 0..5, the first starting at the
\* origin, each starting where the one before ends) and the vehicle and the
\* race fields reset; called in any other phase it changes nothing.
C25_StartOnlyFromReady ==
    [][ev'.op = "startGame" =>
          IF phase = READY
          THEN /\ phase' = PLAYING
               /\ Len(track') = INITIAL_SEGMENTS
               /\ \A i \in DOMAIN track' :
                     /\ track'[i].id = i - 1
                     /\ track'[i].start = (IF i = 1 THEN 0 ELSE track'[i - 1].end)
               /\ rocket' = InitialRocket
               /\ time' = 0 /\ score' = 0 /\ lap' = 1 /\ lapTimes' = <<>>
          ELSE UNCHANGED <<phase, time, score, lap, lapTimes, bestLapTime,
                           lastCheckpointId, rocket, track, hazards, powerUps>>]_vars

\* startGame has been called in the Ready phase
C25_Witness ==
    /\ ev.op = "startGame"
    /\ ev.from = READY
    /\ phase = PLAYING
    /\ Len(track) = INITIAL_SEGMENTS


\* C26: updateGameState(deltaTime) called while the phase is Playing adds
\* exactly deltaTime to the elapsed time; called in any other phase it leaves
\* the elapsed time, the track, the hazards and the power-ups (and the rest of
\* the store) as they were.
C26_TimeRunsOnlyWhilePlaying ==
    [][ev'.op = "updateGameState" =>
          IF phase = PLAYING
          THEN time' = time + ev'.arg
          ELSE UNCHANGED <<phase, time, score, lap, lapTimes, bestLapTime,
                           lastCheckpointId, rocket, track, hazards, powerUps>>]_vars

\* updateGameState has been called twice or more in the Playing phase of a
\* race, the last time with 50 ms, and the track has streamed
C26_Witness ==
    /\ ev.op = "updateGameState"
    /\ ev.from = PLAYING
    /\ ev.arg = 50
    /\ time > 100
    /\ track[1].id > 0


\* C27: the cooldown that a boost end sets is cleared by the deadline which
\* that boost end scheduled: a callback that clears boostCooldown is the only
\* one pending, never one scheduled by an earlier boost end or in an earlier
\* race while a later one is still to come.
C27_CooldownLastsFromLatestBoostEnd ==
    [][(/\ ev'.op = "cooldown"
        /\ rocket.boostCooldown
        /\ ~rocket'.boostCooldown) => timers.cooldown = 1]_vars


\* C28: the boost request of a tick starts a boost (isBoosting true,
\* boostTimeRemaining = BOOST_DURATION, boostCooldown as it was) exactly when
\* the boost key is down and, after the tick's timers have run, isBoosting and
\* boostCooldown are both false; otherwise it changes none of the three.
C28_BoostRequestGuarded ==
    \A k \in DOMAIN ev.req :
        LET q == ev.req[k] IN
        IF q.boost /\ ~q.before.isBoosting /\ ~q.before.boostCooldown
        THEN q.after = [isBoosting |-> TRUE, boostCooldown |-> FALSE,
                        boostTimeRemaining |-> BOOST_DURATION]
        ELSE q.after = q.before

\* a tick in which the boost runs out and the boost key is down: the request
\* is turned down
C28_Witness ==
    \E k \in DOMAIN ev.req :
        LET q == ev.req[k] IN
        /\ q.boost
        /\ q.start.isBoosting
        /\ ~q.before.isBoosting
        /\ q.before.boostCooldown
        /\ ~q.after.isBoosting


\* C29: a track-boundary collision resolved while the vehicle is not
\* shielded turns the velocity round at half its length and takes exactly
\* BOUNDARY_DAMAGE health; a hazard collision resolved while not shielded
\* takes exactly COLLISION_DAMAGE and leaves the velocity; either sets the
\* endGame timeout exactly when the health is then <= 0.
C29_CollisionEffects ==
    \A k \in DOMAIN ev.hit :
        LET h == ev.hit[k] IN
        ~h.shielded =>
            /\ h.kind = "track_boundary" =>
                  /\ Abs(2 * h.vafter + h.vbefore) <= 1
                  /\ h.vafter * h.vbefore <= 0
                  /\ h.after = h.before - BOUNDARY_DAMAGE
            /\ h.kind = "hazard" =>
                  /\ h.vafter = h.vbefore
                  /\ h.after = h.before - COLLISION_DAMAGE
            /\ h.ends = (IF h.after <= 0 THEN 1 ELSE 0)

\* an unshielded boundary collision at speed that uses up the health
C29_Witness ==
    \E k \in DOMAIN ev.hit :
        LET h == ev.hit[k] IN
        /\ h.kind = "track_boundary"
        /\ ~h.shielded
        /\ h.vbefore > 1
        /\ h.before > 0
        /\ h.after <= 0
        /\ h.ends = 1


\* the side of the segment's end plane a position lies on: TRUE for the open
\* half-space the segment's direction points into, FALSE for the rest of
\* space, the plane included
AheadOfGate(segment, point) == Dot(segment.direction, Sub(point, segment.end)) > 0

\* the squared distance, in the end plane, of a position from the segment's
\* end, times NORM * NORM (Pythagoras: the offset less its part along the
\* normal)
AcrossSq(segment, point) ==
    LET o == Sub(point, segment.end)
    IN NORM * NORM * LengthSq(o) - Dot(segment.direction, o) * Dot(segment.direction, o)

\* C31: checkCheckpointCollision reports a crossing only for a checkpoint
\* segment, only when the previous and the current position lie on opposite
\* sides of the plane through the segment's end whose normal is the
\* segment's direction, and only when the current position is, within that
\* plane, closer to the segment's end than half the segment's width; with
\* both positions on the same side it reports nothing.
C31_CrossingOnlyThroughGate ==
    ev.op = "gate" =>
        LET d == ev.det[1] IN
        /\ d.result =>
              /\ d.segment.isCheckpoint
              /\ AheadOfGate(d.segment, d.rocketPrevPosition)
                   # AheadOfGate(d.segment, d.rocketPosition)
              /\ 4 * AcrossSq(d.segment, d.rocketPosition)
                   < NORM * NORM * d.segment.width * d.segment.width
        /\ AheadOfGate(d.segment, d.rocketPrevPosition)
             = AheadOfGate(d.segment, d.rocketPosition) => ~d.result

\* a crossing reported on a turned checkpoint segment, the vehicle one unit
\* inside the half width and above the track
C31_Witness ==
    /\ ev.op = "gate"
    /\ ev.det[1].result
    /\ ev.det[1].segment.direction = Vec(3, 0, -4)
    /\ ev.det[1].rocketPosition.y = 10
    /\ ev.det[1].rocketPosition.x = 4 * 14 + 3


\* the squared distance of a position from a segment, times NORM * NORM: from
\* the segment's start if the position is before it, from its end if past
\* it, and else from the line through both (Pythagoras)
SegmentDistanceSq(segment, point) ==
    LET o == Sub(point, segment.start)
        along == Dot(segment.direction, o)
    IN IF along <= 0 THEN NORM * NORM * LengthSq(o)
       ELSE IF along >= Dot(segment.direction, Sub(segment.end, segment.start))
       THEN NORM * NORM * LengthSq(Sub(point, segment.end))
       ELSE NORM * NORM * LengthSq(o) - along * along

\* C32: checkTrackBoundaryCollision returns true exactly when the least
\* distance of the vehicle from the live segments, each distance taken to
\* the nearest point between the segment's start and end, is greater than
\* half the closest segment's width less the vehicle's half width,
\* max(size.x, size.z) / 2, less 0.2; with no segments it returns false.
C32_OutsideIffBeyondMargin ==
    ev.op = "bounds" =>
        LET d == ev.det[1]
            t == d.trackSegments
            margin2(c) == t[c].width - Max(ROCKET_SIZE.x, ROCKET_SIZE.z) - 2 * BUFFER
        IN d.result =
             \E c \in DOMAIN t :
                /\ \A k \in DOMAIN t :
                      SegmentDistanceSq(t[c], d.rocketPosition)
                        <= SegmentDistanceSq(t[k], d.rocketPosition)
                /\ \/ margin2(c) < 0
                   \/ 4 * SegmentDistanceSq(t[c], d.rocketPosition)
                        > NORM * NORM * margin2(c) * margin2(c)

\* a position past the end of the only segment, within the margin of its
\* line but further than the margin from its end: outside
C32_Witness ==
    /\ ev.op = "bounds"
    /\ ev.det[1].result
    /\ Len(ev.det[1].trackSegments) = 1
    /\ ev.det[1].rocketPosition = Vec(20, 10, -560)


\* a component after a tick of drag alone: of the same sign as before or
\* zero, not larger, and 0.98 of it to within one thousandth
Dragged(before, after) ==
    /\ before * after >= 0
    /\ Abs(after) <= Abs(before)
    /\ Abs(100 * after - DRAG_PERCENT * before) < 100

\* C33: in a tick without thrust and without collision the velocity is
\* multiplied by the drag factor 0.98: its magnitude does not grow, and
\* shrinks while it is not zero, its direction stays whatever the heading
\* does, and nothing like gravity is added to it.
C33_CoastingOnlyDrags ==
    [][(ev'.op = "frame" /\ ev'.key = 0) =>
          /\ Dragged(rocket.velocity.x, rocket'.velocity.x)
          /\ Dragged(rocket.velocity.y, rocket'.velocity.y)
          /\ Dragged(rocket.velocity.z, rocket'.velocity.z)
          /\ LengthSq(rocket'.velocity) <= LengthSq(rocket.velocity)
          /\ LengthSq(rocket.velocity) > 0 =>
                LengthSq(rocket'.velocity) < LengthSq(rocket.velocity)]_vars

\* a tick of coasting with the vehicle pitched up, the velocity still level
\* and turned
C33_Witness ==
    /\ ev.op = "frame"
    /\ ev.key = 0
    /\ ev.arg = Vec(0, 3, -4)
    /\ rocket.velocity.y = 0
    /\ rocket.velocity.x > 0
    /\ rocket.velocity.z < 0
    /\ rocket.speed < 20


\* C34: in every state the lap number is one more than the number of lap
\* times recorded: a completed lap adds one to each, and startGame and
\* restartGame set the lap to 1 and empty the lap times.
C34_LapCountsLapTimes ==
    lap = 1 + Len(lapTimes)

\* a lap completed in a frame and kept
C34_Witness ==
    /\ ev.op = "frame"
    /\ \E c \in CpCalls : c.after.lap = 2 /\ c.before.lap = 1
    /\ lap = 2
    /\ Len(lapTimes) = 1


\* C35: in every state with lap times recorded the best lap time is set and
\* is no greater than any of them, so it is absent only while none is
\* recorded; and once set the best lap time stays set and never increases.
C35_BestLapIsLeast ==
    /\ [](/\ lapTimes # <<>> =>
               /\ bestLapTime # null
               /\ \A i \in DOMAIN lapTimes : bestLapTime <= lapTimes[i]
          /\ bestLapTime = null => lapTimes = <<>>)
    /\ [][bestLapTime # null =>
               /\ bestLapTime' # null
               /\ bestLapTime' <= bestLapTime]_vars

\* in the race after a restart a lap slower than the best of the race before
C35_Witness ==
    /\ Len(lapTimes) = 1
    /\ bestLapTime # null
    /\ bestLapTime < lapTimes[1]
    /\ lastCheckpointId = 24


C37_GameOverMeansDepleted ==
    phase = GAME_OVER => rocket.health <= 0


\* C38: in every state the live hazards have pairwise distinct ids, and so
\* have the live power-ups, whether initializeTrack or
\* generateNewTrackSegment created them.
C38_EntityIdsDistinct ==
    /\ \A i, j \in DOMAIN hazards : i # j => hazards[i].id # hazards[j].id
    /\ \A i, j \in DOMAIN powerUps : i # j => powerUps[i].id # powerUps[j].id


\* the distance from the vehicle to a segment's line, start to end
SegmentGap(position, segment) ==
    IF position < segment.start THEN segment.start - position
    ELSE IF position > segment.end THEN position - segment.end
    ELSE 0


\* C39: a frame that evicts the first segment evicts a segment the vehicle
\* has passed, and never the live segment closest to the vehicle: at the
\* vehicle's position of that frame it is beyond the evicted segment's end,
\* and a segment that stays is nearer to it than the evicted one, also when
\* the vehicle has flown backward to more than 3 segment lengths from the
\* first segment's start.
C39_EvictionOnlyBehind ==
    [][(/\ ev'.op = "frame"
        /\ track # <<>>
        /\ track' # <<>>
        /\ track'[1].id # track[1].id)
       => /\ rocket'.position > track[1].end
          /\ \E i \in DOMAIN track' :
                SegmentGap(rocket'.position, track'[i])
                    < SegmentGap(rocket'.position, track[1])]_vars

====
